---- MODULE Spec2Model ----
(***************************************************************************)
(* Element resolution (ElementLocationTools) and action dispatch           *)
(* (DebugTools.playwright_auto_execute) of the MCP Playwright tools.       *)
(*                                                                         *)
(* One call runs at a time (single logical thread per resolution).  Every  *)
(* driver call (wait_for_selector, click, screenshot, evaluate, ...) is an *)
(* external operation whose outcome is chosen nondeterministically:        *)
(* it returns a value, returns no element, or raises.                      *)
(* Python dicts are records; a key is present iff it is in the DOMAIN.     *)
(*                                                                         *)
(* Several specifications share the module: Spec (resolution and           *)
(* dispatch), FindSpec (element search and its relevance score),           *)
(* SessionSpec (a caller's page index across playwright_close),            *)
(* CollectionSpec (the page collection under interleaved calls),           *)
(* HighlightSpec (playwright_highlight_element), ConsoleSpec               *)
(* (playwright_console_logs) and CodegenSpec (the codegen sessions).       *)
(***************************************************************************)
EXTENDS Integers, Sequences, FiniteSets, Bags, TLC

\* ---------------------------------------------------------------- bounds
\* pages held by the session (index 0 .. NumPages-1 is valid)
NumPages == 2
\* driver anomalies (wait returning no element, screenshot raising,
\* page.title()/evaluate raising in diagnostics) allowed within one call
MaxFaults == 1
\* elements the driver discovers on a page in one search
MaxElems == 3
\* calls on the page collection of one session that can be suspended at once
NumCallers == 2
\* pages the session can hold once new tabs have been opened
MaxPages == 3

\* ------------------------------------------------------------- constants
None == "None"
Desc == "Submit"
S1 == "s1"
S2 == "s2"

Descriptions == {None, Desc}
SelectorLists == {<<>>, <<S1>>, <<S1, S2>>}
LocateActions == {"find", "click", "fill", "hover", "select"}
PageIndexes == {0, NumPages}

\* dict.get(key) used as a truth value
Truthy(d, k) == k \in DOMAIN d /\ d[k] = TRUE

\* ---------------------------------------------------------- session state
VARIABLES
    pages,   \* self.pages: the page handles of the session, index-addressed
    calls,   \* the calls on the collection suspended at an await (a bag)
    closed,  \* the playwright_close call that returned last, with its result
    opened,  \* the click_and_switch_tab call that returned last, with its result
    held,    \* a page index a caller obtained, with the page it designated
    used     \* what the caller's operation on the held index was applied to

sessionVars == <<pages, calls, closed, opened, held, used>>

PageHandles == <<"p1", "p2", "p3", "p4", "p5">>

\* PlaywrightBase._get_page: the page handle at the index, or None
GetPage(page_index) ==
    IF page_index >= 0 /\ page_index < Len(pages)
    THEN pages[page_index + 1] ELSE None

InvalidPageResult == [status |-> "error", message |-> "Invalid page index"]

\* ------------------------------------------- multi_strategy_locate: setup
\* "if selectors and isinstance(selectors, list) ... elif description ... else"
RequestIsValid_NoCheck(description, selectors) == TRUE

RequestIsValid(description, selectors) ==
    Len(selectors) > 0 \/ description # None

Sel(tpl, arg) == [tpl |-> tpl, arg |-> arg]

\* the seven selector templates generated from the description
Templates(description) ==
    << Sel("text=", description),
       Sel("text=''", description),
       Sel("button:has-text('')", description),
       Sel("a:has-text('')", description),
       Sel("input[placeholder*='']", description),
       Sel("[aria-label*='']", description),
       Sel("label:has-text('')", description) >>

StandardSelectors(description, selectors) ==
    IF Len(selectors) > 0
    THEN [k \in 1..Len(selectors) |-> Sel("explicit", selectors[k])]
    ELSE Templates(description)

InvalidRequestResult ==
    [status |-> "error",
     message |-> "Either description or selectors must be provided"]

\* the driver call the standard-selector branch issues for an action
StandardOp(action) ==
    IF action \in {"click", "fill", "hover", "select"} THEN action ELSE None

\* ----------------------------------------------------- attempt trail
FailedAttempt(attempt, error) ==
    [k \in (DOMAIN attempt) \cup {"result", "error"} |->
        IF k = "result" THEN "failed"
        ELSE IF k = "error" THEN error
        ELSE attempt[k]]

SuccessAttempt(attempt) ==
    [k \in (DOMAIN attempt) \cup {"result"} |->
        IF k = "result" THEN "success" ELSE attempt[k]]

\* "attempt[result] = success; attempts.append(attempt)" followed by an
\* exception handler doing "attempt[result] = failed; attempts.append(attempt)":
\* the same dict object is in the list twice, both entries read "failed"
AppendTwiceAliased(attempts, attempt, error) ==
    attempts \o << FailedAttempt(attempt, error), FailedAttempt(attempt, error) >>

\* ------------------------------------------------------------ sub-locators
\* Each returns [res |-> the dict returned, acted |-> driver op performed
\* (None if none)].

\* outcomes of the driver calls of one accessibility lookup: the snapshot
\* (raises, is empty, has no matching node, has a matching button/link or
\* another matching node), the two waits and the action; a call that is
\* not reached has the outcome "-"
A11yScenarios ==
    { d \in [snap : {"raise", "empty", "nomatch", "button", "other"},
             w1 : {"raise", "none", "elem", "-"},
             w2 : {"raise", "none", "elem", "-"},
             act : {"ok", "raise", "-"}] :
        /\ (d.w1 # "-") <=> (d.snap = "button")
        /\ (d.w2 # "-") <=> (d.w1 = "raise")
        /\ (d.act # "-") <=> (d.w1 = "elem" \/ d.w2 = "elem") }

A11yElement(d) ==
    IF d.snap = "button"
    THEN IF d.w1 = "elem" THEN TRUE
         ELSE IF d.w1 = "raise" THEN d.w2 = "elem"
         ELSE FALSE
    ELSE FALSE

AccessibilityLocator(description, action, d) ==
    IF d.snap = "raise" \/ (description = None /\ d.snap # "empty")
    THEN [res |-> [status |-> "error", message |-> "exc"],
          acted |-> None]
    ELSE IF action = "find"
    THEN [res |-> [status |-> "success", message |-> "Found nodes"],
          acted |-> None]
    ELSE IF d.snap \in {"button", "other"} /\ action \in {"click", "fill", "select"}
    THEN IF A11yElement(d)
         THEN IF d.act = "raise"
              THEN [res |-> [status |-> "error", message |-> "exc"],
                    acted |-> None]
              ELSE [res |-> [status |-> "success",
                             message |-> "performed via accessibility tree",
                             element_found |-> TRUE,
                             element_details |-> "top_node"],
                    acted |-> action]
         ELSE [res |-> [status |-> "error",
                        message |-> "Found accessibility node but couldn't locate corresponding DOM element"],
               acted |-> None]
    ELSE [res |-> [status |-> "error",
                   message |-> "No matching accessibility nodes or unsupported action"],
          acted |-> None]

VisionScenarios ==
    { d \in [w : {"raise", "none", "elem"}, act : {"ok", "raise", "-"}] :
        (d.act # "-") <=> (d.w = "elem") }

\* the driver call playwright_vision_locator / playwright_js_locate issue
TextOp(action) == IF action \in {"click", "fill"} THEN action ELSE None

VisionLocator(text, action, d) ==
    IF d.w = "raise"
    THEN [res |-> [status |-> "error", message |-> "exc"],
          acted |-> None]
    ELSE IF d.w = "none"
    THEN [res |-> [status |-> "error", message |-> "Could not find text"],
          acted |-> None]
    ELSE IF action = "find"
    THEN IF d.act = "raise"
         THEN [res |-> [status |-> "error", message |-> "exc"],
               acted |-> None]
         ELSE [res |-> [status |-> "success", message |-> "Found text",
                        element_found |-> TRUE, position |-> "bound"],
               acted |-> None]
    ELSE IF TextOp(action) # None /\ d.act = "raise"
    THEN [res |-> [status |-> "error", message |-> "exc"],
          acted |-> None]
    ELSE [res |-> [status |-> "success", message |-> "performed on element with text",
                   element_found |-> TRUE],
          acted |-> TextOp(action)]

JsScenarios ==
    { d \in [ev : {"raise", "empty", "elems"},
             w : {"raise", "none", "elem", "-"},
             act : {"ok", "raise", "-"}] :
        /\ (d.w # "-") <=> (d.ev = "elems")
        /\ (d.act # "-") <=> (d.w = "elem") }

JsLocate(description, action, d) ==
    IF d.ev = "raise" \/ description = None
    THEN [res |-> [status |-> "error", message |-> "exc"],
          acted |-> None]
    ELSE IF d.ev = "empty"
    THEN [res |-> [status |-> "error", message |-> "No elements found matching description"],
          acted |-> None]
    ELSE IF action = "find"
    THEN [res |-> [status |-> "success", message |-> "Found elements",
                   elements |-> "elements"],
          acted |-> None]
    ELSE IF d.w = "raise"
    THEN [res |-> [status |-> "error", message |-> "exc"],
          acted |-> None]
    ELSE IF d.w = "none"
    THEN [res |-> [status |-> "error",
                   message |-> "Found element with JS but couldn't interact with it",
                   element_details |-> "top_element"],
          acted |-> None]
    ELSE IF TextOp(action) # None /\ d.act = "raise"
    THEN [res |-> [status |-> "error", message |-> "exc"],
          acted |-> None]
    ELSE [res |-> [status |-> "success", message |-> "performed via JS locator",
                   element_found |-> TRUE, element_details |-> "top_element"],
          acted |-> TextOp(action)]

Get(d, k) == IF k \in DOMAIN d THEN d[k] ELSE None

\* ------------------------------------------------------------------ state
VARIABLES
    pc,      \* position of the running call ("idle" between calls)
    ret,     \* where the running tool returns to: "top" or a dispatcher label
    loc,     \* frame of playwright_multi_strategy_locate
    sc,      \* frame of playwright_smart_click
    ae,      \* frame of playwright_auto_execute
    tried,   \* strategies attempted by multi_strategy_locate, in order
    acted,   \* driver actions that completed on the page, in order
    issued,  \* the functions that have issued a driver call
    faults,  \* driver anomalies so far in this call
    fe,      \* frame of playwright_find_element / the scan of playwright_js_locate
    elem_style,        \* inline style of the element a highlight addresses
    hl,                \* frame of playwright_highlight_element
    console_logs,      \* self.console_logs: the console-log buffer
    cl,                \* the playwright_console_logs call that returned last
    codegen_sessions,  \* self.codegen_sessions: session_id -> session
    cg                 \* the codegen call that returned last

resolutionVars == <<pc, ret, loc, sc, ae, tried, acted, issued, faults>>
searchVars == <<fe>>
highlightVars == <<elem_style, hl>>
consoleVars == <<console_logs, cl>>
codegenVars == <<codegen_sessions, cg>>
toolVars == <<highlightVars, consoleVars, codegenVars>>
vars == <<resolutionVars, searchVars, sessionVars, toolVars>>

NoResult == [status |-> "none"]

LocIdle ==
    [active |-> FALSE, description |-> None, selectors |-> <<>>,
     action |-> "click", page_index |-> 0, capture_screenshot |-> FALSE,
     optional |-> FALSE, standard_selectors |-> <<>>, i |-> 1,
     attempts |-> <<>>, a11y_button |-> FALSE,
     exhausted |-> FALSE, done |-> FALSE, result |-> NoResult]

ScIdle ==
    [active |-> FALSE, text |-> None, selector |-> None, page_index |-> 0,
     optional |-> FALSE, exhausted |-> FALSE, done |-> FALSE,
     result |-> NoResult]

AeIdle ==
    [active |-> FALSE, action |-> "click", max_attempts |-> 0, k |-> 1,
     tool_names |-> <<>>, page_index |-> 0, attempts |-> <<>>,
     invoked |-> <<>>, reported |-> <<>>, last_resort |-> 0,
     driver_ok |-> FALSE,
     exhausted |-> FALSE, done |-> FALSE, result |-> NoResult]

FeIdle == [active |-> FALSE]

\* the inline style of an element that sets none of the three properties
PlainStyle == [outline |-> "", zIndex |-> "", position |-> ""]

HlIdle == [pc |-> "idle"]

NoCall == [status |-> "none"]
NoHandle == [index |-> -1, page |-> None]
NotUsed == [status |-> "none"]

Init ==
    /\ pc = "idle"
    /\ ret = "top"
    /\ loc = LocIdle
    /\ sc = ScIdle
    /\ ae = AeIdle
    /\ tried = <<>>
    /\ acted = <<>>
    /\ issued = {}
    /\ faults = 0
    /\ fe = FeIdle
    /\ elem_style = PlainStyle
    /\ hl = HlIdle
    /\ console_logs = <<>>
    /\ cl = NoCall
    /\ codegen_sessions = [k \in {} |-> None]      \* {}
    /\ cg = NoCall
    /\ pages = SubSeq(PageHandles, 1, NumPages)
    /\ calls = EmptyBag
    /\ closed = NoCall
    /\ opened = NoCall
    /\ held = NoHandle
    /\ used = NotUsed

\* a tool returns: to the caller ("done") or into the dispatcher
ReturnLabel == IF ret = "top" THEN "done" ELSE ret

Issue(fn) == issued \cup {fn}

Acted(fn, by, op) ==
    IF op = None THEN acted
    ELSE Append(acted, [fn |-> fn, by |-> by, op |-> op])

\* ------------------------------------ playwright_multi_strategy_locate
\* entry: _get_page, then the validation of the request
LocateEntry(description, selectors, action, page_index, capture_screenshot, optional) ==
    LET frame == [LocIdle EXCEPT !.active = TRUE,
                                 !.description = description,
                                 !.selectors = selectors,
                                 !.action = action,
                                 !.page_index = page_index,
                                 !.capture_screenshot = capture_screenshot,
                                 !.optional = optional]
    IN IF GetPage(page_index) = None
       THEN [frame EXCEPT !.done = TRUE, !.result = InvalidPageResult]
       ELSE IF ~RequestIsValid(description, selectors)
       THEN [frame EXCEPT !.done = TRUE, !.result = InvalidRequestResult]
       ELSE [frame EXCEPT !.standard_selectors =
                              StandardSelectors(description, selectors)]

CallLocate ==
    /\ pc = "idle"
    /\ UNCHANGED <<searchVars, sessionVars, toolVars>>
    /\ \E description \in Descriptions, selectors \in SelectorLists,
          action \in LocateActions, page_index \in PageIndexes,
          capture_screenshot \in BOOLEAN, optional \in BOOLEAN :
          LET frame == LocateEntry(description, selectors, action, page_index,
                                   capture_screenshot, optional)
          IN /\ loc' = frame
             /\ pc' = IF frame.done THEN "done" ELSE "loc_sel"
    /\ ret' = "top"
    /\ UNCHANGED <<sc, ae, tried, acted, issued, faults>>

StandardSuccessResult(selector, action, screenshot_path) ==
    [status |-> "success",
     message |-> "Located element using standard selector",
     strategy_used |-> "standard_selector",
     selector_used |-> selector,
     action_performed |-> action,
     screenshot |-> screenshot_path]

ScreenshotPath(capture_screenshot) ==
    IF capture_screenshot THEN "multi_strategy.png" ELSE None

\* one iteration of "for selector in standard_selectors"
LocateTrySelector ==
    /\ pc = "loc_sel"
    /\ UNCHANGED <<searchVars, sessionVars, toolVars>>
    /\ \E o \in {"wait_raise", "wait_none", "act_raise", "shot_raise", "ok"} :
        LET selector == loc.standard_selectors[loc.i]
            attempt == [strategy |-> "standard_selector", selector |-> selector]
            op == StandardOp(loc.action)
            found == o \in {"act_raise", "shot_raise", "ok"}
            performed == o \in {"shot_raise", "ok"}
            nextpc == IF loc.i = Len(loc.standard_selectors)
                      THEN "loc_a11y" ELSE "loc_sel"
        IN /\ o = "act_raise" => op # None
           /\ o = "shot_raise" => loc.capture_screenshot
           /\ o \in {"wait_none", "shot_raise"} => faults < MaxFaults
           /\ faults' = IF o \in {"wait_none", "shot_raise"} THEN faults + 1 ELSE faults
           /\ tried' = Append(tried, [strategy |-> "standard_selector",
                                      target |-> selector, ok |-> performed])
           /\ issued' = Issue("locate")
           /\ acted' = IF performed
                       THEN Acted("locate", "standard_selector", op)
                       ELSE acted
           /\ IF o = "ok"
              THEN /\ loc' = [loc EXCEPT
                        !.attempts = Append(@, SuccessAttempt(attempt)),
                        !.done = TRUE,
                        !.result = StandardSuccessResult(selector, loc.action,
                                       ScreenshotPath(loc.capture_screenshot))]
                   /\ pc' = ReturnLabel
              ELSE /\ loc' = [loc EXCEPT
                        !.i = @ + 1,
                        !.attempts =
                            IF o = "wait_none" THEN @
                            ELSE IF o = "shot_raise"
                            THEN AppendTwiceAliased(@, attempt, "exc")
                            ELSE Append(@, FailedAttempt(attempt, "exc"))]
                   /\ pc' = nextpc
    /\ UNCHANGED <<ret, sc, ae>>

\* the common tail of the accessibility / vision / JavaScript blocks:
\* r is what the sub-locator returned, shot the outcome of the screenshot,
\* button whether the accessibility snapshot held a matching button node
StrategyBlock(r, attempt, strategy, failmsg, result, nextpc, shot, button) ==
    LET success == r.res.status = "success" /\ Truthy(r.res, "element_found")
    IN /\ (success /\ shot = "raise") => faults < MaxFaults
       /\ faults' = IF success /\ shot = "raise" THEN faults + 1 ELSE faults
       /\ tried' = Append(tried, [strategy |-> strategy,
                                  target |-> loc.description,
                                  ok |-> success])
       /\ issued' = Issue(strategy)
       /\ acted' = Acted("locate", strategy, r.acted)
       /\ IF success /\ shot = "ok"
          THEN /\ loc' = [loc EXCEPT
                    !.attempts = Append(@, SuccessAttempt(attempt)),
                    !.a11y_button = button,
                    !.done = TRUE,
                    !.result = result]
               /\ pc' = ReturnLabel
          ELSE /\ loc' = [loc EXCEPT
                    !.a11y_button = button,
                    !.attempts =
                        IF success
                        THEN AppendTwiceAliased(@, attempt, "exc")
                        ELSE Append(@, FailedAttempt(attempt, failmsg))]
               /\ pc' = nextpc

ShotOutcomes(capture_screenshot) ==
    IF capture_screenshot THEN {"ok", "raise"} ELSE {"ok"}

LocateTryAccessibility ==
    /\ pc = "loc_a11y"
    /\ UNCHANGED <<searchVars, sessionVars, toolVars>>
    /\ \E d \in A11yScenarios, shot \in ShotOutcomes(loc.capture_screenshot) :
        LET r == AccessibilityLocator(loc.description, loc.action, d)
        IN StrategyBlock(r,
              [strategy |-> "accessibility_tree", description |-> loc.description],
              "accessibility_tree",
              "No matching elements found via accessibility tree",
              [status |-> "success",
               message |-> "Located element using accessibility tree",
               strategy_used |-> "accessibility_tree",
               element_details |-> Get(r.res, "element_details"),
               action_performed |-> loc.action,
               screenshot |-> ScreenshotPath(loc.capture_screenshot)],
              "loc_vision", shot, d.snap = "button")
    /\ UNCHANGED <<ret, sc, ae>>

LocateTryVision ==
    /\ pc = "loc_vision"
    /\ UNCHANGED <<searchVars, sessionVars, toolVars>>
    /\ \E d \in VisionScenarios, shot \in ShotOutcomes(loc.capture_screenshot) :
        LET r == VisionLocator(loc.description, loc.action, d)
        IN StrategyBlock(r,
              [strategy |-> "vision_location", text |-> loc.description],
              "vision_locator",
              "No matching elements found via vision-based locator",
              [status |-> "success",
               message |-> "Located element using vision-based locator",
               strategy_used |-> "vision_locator",
               action_performed |-> loc.action,
               screenshot |-> ScreenshotPath(loc.capture_screenshot)],
              "loc_js", shot, loc.a11y_button)
    /\ UNCHANGED <<ret, sc, ae>>

LocateTryJavascript ==
    /\ pc = "loc_js"
    /\ UNCHANGED <<searchVars, sessionVars, toolVars>>
    /\ \E d \in JsScenarios, shot \in ShotOutcomes(loc.capture_screenshot) :
        LET r == JsLocate(loc.description, loc.action, d)
        IN StrategyBlock(r,
              [strategy |-> "javascript", description |-> loc.description],
              "javascript",
              "No matching elements found via JavaScript",
              [status |-> "success",
               message |-> "Located element using JavaScript",
               strategy_used |-> "javascript",
               element_details |-> Get(r.res, "element_details"),
               action_performed |-> loc.action,
               screenshot |-> ScreenshotPath(loc.capture_screenshot)],
              "loc_diag", shot, loc.a11y_button)
    /\ UNCHANGED <<ret, sc, ae>>

\* the outer "except Exception" of multi_strategy_locate
LocateExceptionResult_IgnoreOptional(optional) ==
    [status |-> "error", message |-> "exc"]

LocateExceptionResult(optional) ==
    IF optional
    THEN [status |-> "success",
          message |-> "Optional action: Exception occurred but continuing",
          element_found |-> FALSE,
          error |-> "exc"]
    ELSE [status |-> "error", message |-> "exc"]

Strategies(attempts) == [k \in 1..Len(attempts) |-> attempts[k].strategy]

PageInfo == [url |-> "url", title |-> "title", content_snippet |-> "text"]

\* "If we got here, all strategies failed": what is returned on exhaustion
LocateExhaustedResult(description, optional, attempts, debug_screenshot) ==
    IF optional
    THEN [status |-> "success",
          message |-> "Optional action: Element not found but continuing",
          element_found |-> FALSE,
          attempted_strategies |-> Strategies(attempts),
          detailed_attempts |-> attempts,
          page_info |-> PageInfo]
    ELSE [status |-> "error",
          message |-> "Failed to locate element with any strategy",
          attempted_strategies |-> Strategies(attempts),
          detailed_attempts |-> attempts,
          page_info |-> PageInfo,
          debug_screenshot |-> debug_screenshot,
          suggestion |-> "Try using more specific description or inspect the page manually"]

\* debug screenshot, page_info, then the optional / non-optional return
LocateExhausted ==
    /\ pc = "loc_diag"
    /\ UNCHANGED <<searchVars, sessionVars, toolVars>>
    /\ \E o \in {"shot_raise", "info_raise", "ok"} :
        /\ o = "shot_raise" => loc.capture_screenshot
        /\ o # "ok" => faults < MaxFaults
        /\ faults' = IF o # "ok" THEN faults + 1 ELSE faults
        /\ issued' = Issue("locate")
        /\ loc' = [loc EXCEPT
              !.exhausted = TRUE,
              !.done = TRUE,
              !.result =
                  IF o = "ok"
                  THEN LocateExhaustedResult(loc.description, loc.optional,
                           loc.attempts,
                           IF loc.capture_screenshot
                           THEN "multi_strategy_failed.png" ELSE None)
                  ELSE LocateExceptionResult(loc.optional)]
    /\ pc' = ReturnLabel
    /\ UNCHANGED <<ret, sc, ae, tried, acted>>

\* --------------------------------------------------- playwright_smart_click
SmartTexts == {None, Desc}
SmartSelectorArgs == {None, S1}
ElementTypes == {"any", "button", "link"}

\* the selector list built from the text and the element type
SmartSelectors(text, element_type) ==
    (IF element_type \in {"any", "button"}
     THEN << Sel("button:has-text('')", text),
             Sel("button:has-text('', 'i')", text),
             Sel("input[type='button'][value*='']", text),
             Sel("input[type='submit'][value*='']", text),
             Sel("[role='button']:has-text('')", text) >>
     ELSE <<>>)
    \o
    (IF element_type \in {"any", "link"}
     THEN << Sel("a:has-text('')", text),
             Sel("a:has-text('', 'i')", text),
             Sel("a[href]:has-text('')", text) >>
     ELSE <<>>)
    \o
    << Sel("text=''", text),
       Sel("text='' >> visible=true", text),
       Sel("[aria-label*='']", text),
       Sel("[title*='']", text),
       Sel("[placeholder*='']", text),
       Sel("[name*='']", text),
       Sel("[data-test*='']", text) >>

FirstFive(s) == SubSeq(s, 1, IF Len(s) < 5 THEN Len(s) ELSE 5)

SmartNoTextResult ==
    [status |-> "error",
     message |-> "Either text or a valid selector must be provided"]

\* the outer "except Exception" of smart_click
SmartExceptionResult(optional) ==
    IF optional
    THEN [status |-> "success",
          message |-> "Optional action: Exception occurred but continuing",
          element_found |-> FALSE,
          error |-> "exc"]
    ELSE [status |-> "error", message |-> "exc"]

\* "If we get here, all strategies failed"
SmartExhaustedResult(optional, selectors, debug_screenshot) ==
    IF optional
    THEN [status |-> "success",
          message |-> "Optional click: Element not found but continuing",
          tried_selectors |-> FirstFive(selectors),
          fallbacks_tried |-> <<"accessibility_locator", "vision_locator", "js_locate">>,
          element_found |-> FALSE,
          debug_screenshot |-> debug_screenshot]
    ELSE [status |-> "error",
          message |-> "Smart click failed: Could not find clickable element",
          tried_selectors |-> FirstFive(selectors),
          fallbacks_tried |-> <<"accessibility_locator", "vision_locator", "js_locate">>,
          debug_screenshot |-> debug_screenshot]

\* entry: _get_page, then the choice between the direct click and the text
SmartEntry(text, selector, element_type, page_index, capture_screenshot, optional, description) ==
    LET frame == [active |-> TRUE, text |-> text, selector |-> selector,
                  element_type |-> element_type, page_index |-> page_index,
                  capture_screenshot |-> capture_screenshot,
                  optional |-> optional, description |-> description,
                  selectors |-> <<>>, i |-> 1, exhausted |-> FALSE,
                  done |-> FALSE, result |-> NoResult]
    IN IF GetPage(page_index) = None
       THEN [frame EXCEPT !.done = TRUE, !.result = InvalidPageResult]
       ELSE frame

\* after the direct click was skipped or has failed: "if not text: return"
SmartAfterDirect(frame, text) ==
    IF text = None
    THEN [frame EXCEPT !.done = TRUE, !.result = SmartNoTextResult]
    ELSE [frame EXCEPT !.text = text,
                       !.selectors = SmartSelectors(text, frame.element_type)]

CallSmartClick ==
    /\ pc = "idle"
    /\ UNCHANGED <<searchVars, sessionVars, toolVars>>
    /\ \E text \in SmartTexts, selector \in SmartSelectorArgs,
          element_type \in ElementTypes, page_index \in PageIndexes,
          capture_screenshot \in BOOLEAN, optional \in BOOLEAN,
          description \in Descriptions :
          LET frame == SmartEntry(text, selector, element_type, page_index,
                                  capture_screenshot, optional, description)
          IN /\ sc' = frame
             /\ pc' = IF frame.done THEN "done"
                      ELSE IF selector # None /\ text = None THEN "sc_direct"
                      ELSE "sc_check"
    /\ ret' = "top"
    /\ UNCHANGED <<loc, ae, tried, acted, issued, faults>>

\* "if selector and not text": page.click(selector) before the strategies
SmartDirectClick ==
    /\ pc = "sc_direct"
    /\ UNCHANGED <<searchVars, sessionVars, toolVars>>
    /\ \E o \in {"click_raise", "shot_raise", "ok"} :
        /\ o = "shot_raise" => (sc.capture_screenshot /\ faults < MaxFaults)
        /\ faults' = IF o = "shot_raise" THEN faults + 1 ELSE faults
        /\ issued' = Issue("smart_click")
        /\ acted' = IF o = "click_raise" THEN acted
                    ELSE Acted("smart_click", "direct", "click")
        /\ IF o = "ok"
           THEN /\ sc' = [sc EXCEPT
                     !.done = TRUE,
                     !.result =
                         [status |-> "success",
                          message |-> "Clicked element with selector",
                          selector_used |-> sc.selector]
                         @@ (IF sc.capture_screenshot
                             THEN [screenshot |-> "smart_click.png"]
                             ELSE <<>>)]
                /\ pc' = ReturnLabel
           ELSE \* text = text or description or "Click Target"
                /\ sc' = SmartAfterDirect(sc,
                            IF sc.description # None THEN sc.description
                            ELSE "Click Target")
                /\ pc' = "sc_sel"
    /\ UNCHANGED <<ret, loc, ae, tried>>

\* "if not text: return error", then the selector list is built
SmartCheckText ==
    /\ pc = "sc_check"
    /\ UNCHANGED <<searchVars, sessionVars, toolVars>>
    /\ LET frame == SmartAfterDirect(sc, sc.text)
       IN /\ sc' = frame
          /\ pc' = IF frame.done THEN ReturnLabel ELSE "sc_sel"
    /\ UNCHANGED <<ret, loc, ae, tried, acted, issued, faults>>

\* one iteration of "for selector in selectors"
SmartTrySelector ==
    /\ pc = "sc_sel"
    /\ UNCHANGED <<searchVars, sessionVars, toolVars>>
    /\ \E o \in {"not_found", "click_raise", "shot_raise", "ok"} :
        LET selector == sc.selectors[sc.i]
            clicked == o \in {"shot_raise", "ok"}
        IN /\ o = "shot_raise" => (sc.capture_screenshot /\ faults < MaxFaults)
           /\ faults' = IF o = "shot_raise" THEN faults + 1 ELSE faults
           /\ issued' = Issue("smart_click")
           /\ acted' = IF clicked
                       THEN Acted("smart_click", "selector", "click")
                       ELSE acted
           /\ IF o = "ok"
              THEN /\ sc' = [sc EXCEPT
                        !.done = TRUE,
                        !.result =
                            [status |-> "success",
                             message |-> "Smart click successful",
                             selector_used |-> selector,
                             element_found |-> TRUE]
                            @@ (IF sc.capture_screenshot
                                THEN [screenshot |-> "smart_click_success.png"]
                                ELSE <<>>)]
                   /\ pc' = ReturnLabel
              ELSE /\ sc' = [sc EXCEPT !.i = @ + 1]
                   /\ pc' = IF sc.i = Len(sc.selectors) THEN "sc_a11y" ELSE "sc_sel"
    /\ UNCHANGED <<ret, loc, ae, tried>>

\* "Try accessibility API": page.click("[role=button][name='text']")
SmartAccessibilityClick ==
    /\ pc = "sc_a11y"
    /\ UNCHANGED <<searchVars, sessionVars, toolVars>>
    /\ \E o \in {"click_raise", "ok"} :
        /\ issued' = Issue("smart_click")
        /\ acted' = IF o = "ok"
                    THEN Acted("smart_click", "accessibility", "click")
                    ELSE acted
        /\ IF o = "ok"
           THEN /\ sc' = [sc EXCEPT
                     !.done = TRUE,
                     !.result =
                         [status |-> "success",
                          message |-> "Smart click successful via accessibility API",
                          element_found |-> TRUE]]
                /\ pc' = ReturnLabel
           ELSE /\ sc' = sc
                /\ pc' = "sc_exhausted"
    /\ UNCHANGED <<ret, loc, ae, tried, faults>>

\* debug screenshot, then the optional / non-optional return
SmartExhausted ==
    /\ pc = "sc_exhausted"
    /\ UNCHANGED <<searchVars, sessionVars, toolVars>>
    /\ \E o \in {"shot_raise", "ok"} :
        /\ o = "shot_raise" => (sc.capture_screenshot /\ faults < MaxFaults)
        /\ faults' = IF o = "shot_raise" THEN faults + 1 ELSE faults
        /\ issued' = IF sc.capture_screenshot THEN Issue("smart_click") ELSE issued
        /\ sc' = [sc EXCEPT
              !.exhausted = TRUE,
              !.done = TRUE,
              !.result =
                  IF o = "ok"
                  THEN SmartExhaustedResult(sc.optional, sc.selectors,
                           IF sc.capture_screenshot
                           THEN "smart_click_failed.png" ELSE None)
                  ELSE SmartExceptionResult(sc.optional)]
    /\ pc' = ReturnLabel
    /\ UNCHANGED <<ret, loc, ae, tried, acted>>

\* ------------------------------------------------- the thin one-call tools
SimpleScenarios ==
    [op : {"ok", "raise"}, title : {"ok", "raise"}, shot : {"ok", "raise"}]

\* playwright_navigate; the module never imports asyncio, which the
\* screenshot path names, so capture_screenshot ends in the except branch
Navigate(capture_screenshot, d) ==
    IF d.op = "raise"
    THEN [res |-> [status |-> "error", message |-> "exc"],
          acted |-> None]
    ELSE IF d.title = "raise" \/ capture_screenshot
    THEN [res |-> [status |-> "error", message |-> "exc"],
          acted |-> "goto"]
    ELSE [res |-> [status |-> "success", message |-> "Navigated",
                   title |-> "title", url |-> "url"],
          acted |-> "goto"]

\* playwright_hover
Hover(capture_screenshot, d) ==
    IF d.op = "raise"
    THEN [res |-> [status |-> "error", message |-> "exc"],
          acted |-> None]
    ELSE IF capture_screenshot /\ d.shot = "raise"
    THEN [res |-> [status |-> "error", message |-> "exc"],
          acted |-> "hover"]
    ELSE [res |-> [status |-> "success", message |-> "Hovered over element"]
                  @@ (IF capture_screenshot THEN [screenshot |-> "hover.png"]
                      ELSE <<>>),
          acted |-> "hover"]

\* playwright_fill and playwright_select: one driver call
FillOrSelect(op, d) ==
    IF d.op = "raise"
    THEN [res |-> [status |-> "error", message |-> "exc"],
          acted |-> None]
    ELSE [res |-> [status |-> "success", message |-> "done"],
          acted |-> op]

\* ------------------------------------------------- playwright_auto_execute
\* inputs
AutoActions == {"click", "fill", "navigate", "select", "hover", "Click", "find"}
MaxAttemptsArg == 3
AttemptLimits == 0..MaxAttemptsArg
ExtraKwargs == {{}, {"timeout"}}

\* str.lower() on the action verbs used
Lower(action) == IF action = "Click" THEN "click" ELSE action

\* action_tool_map.get(action.lower(), [multi_strategy_locate])
ToolNames(action) ==
    CASE Lower(action) = "click" ->
            <<"playwright_smart_click", "playwright_multi_strategy_locate",
              "playwright_js_locate">>
      [] Lower(action) = "fill" ->
            <<"playwright_fill", "playwright_multi_strategy_locate",
              "playwright_js_locate">>
      [] Lower(action) = "navigate" -> <<"playwright_navigate">>
      [] Lower(action) = "select" ->
            <<"playwright_select", "playwright_multi_strategy_locate">>
      [] Lower(action) = "hover" ->
            <<"playwright_hover", "playwright_multi_strategy_locate">>
      [] OTHER -> <<"playwright_multi_strategy_locate">>

AllTools ==
    {"playwright_smart_click", "playwright_multi_strategy_locate",
     "playwright_js_locate", "playwright_fill", "playwright_navigate",
     "playwright_select", "playwright_hover"}

\* what getattr(self, name) gives on the tools object: at most one tool of
\* the chain is absent or is an attribute that is not callable
ToolObjects(action) ==
    {[t \in AllTools |-> "method"]}
    \cup {[t \in AllTools |-> IF t = ToolNames(action)[k] THEN a ELSE "method"] :
            k \in 1..Len(ToolNames(action)), a \in {"absent", "noncallable"}}

\* the named parameters of each tool; ** marks a **kwargs parameter
ToolParams(tool) ==
    CASE tool = "playwright_navigate" ->
            {"url", "wait_for_load", "capture_screenshot", "page_index"}
      [] tool = "playwright_smart_click" ->
            {"text", "selector", "element_type", "page_index",
             "capture_screenshot", "optional", "description", "**"}
      [] tool = "playwright_fill" -> {"selector", "text", "page_index"}
      [] tool = "playwright_select" -> {"selector", "value", "page_index"}
      [] tool = "playwright_hover" ->
            {"selector", "page_index", "capture_screenshot"}
      [] tool = "playwright_multi_strategy_locate" ->
            {"description", "selectors", "action", "text_input", "page_index",
             "capture_screenshot", "optional", "**"}
      [] tool = "playwright_js_locate" ->
            {"description", "action", "text_input", "page_index"}

\* tool_args of the primary attempt
PrimaryArgs(tool, kwargs) ==
    kwargs \cup {"page_index", "capture_screenshot"} \cup
    (CASE tool = "playwright_navigate" -> {"url"}
       [] tool = "playwright_smart_click" -> {"text"}
       [] tool = "playwright_fill" -> {"selector", "text"}
       [] tool = "playwright_select" -> {"selector", "value"}
       [] tool = "playwright_hover" -> {"selector"}
       [] tool = "playwright_multi_strategy_locate" ->
            {"description", "action", "text_input"}
       [] OTHER -> {})

\* tool_args of a fallback attempt
FallbackArgs(tool, kwargs) ==
    kwargs \cup {"page_index", "capture_screenshot"} \cup
    (CASE tool = "playwright_multi_strategy_locate" ->
            {"description", "action", "text_input"}
       [] tool = "playwright_js_locate" ->
            {"description", "action", "text_input"}
       [] tool = "playwright_vision_locator" -> {"text", "action", "text_input"}
       [] OTHER -> {})

\* method(**tool_args) raises TypeError on an unexpected keyword
ArgsAccepted(tool, args) ==
    "**" \in ToolParams(tool) \/ args \subseteq ToolParams(tool)

FrameTools == {"playwright_smart_click", "playwright_multi_strategy_locate"}

\* the driver scenarios of a tool that runs as one step
ToolScenarios(tool) ==
    IF tool = "playwright_js_locate" THEN JsScenarios ELSE SimpleScenarios

\* a tool that runs as one step: what it returns under driver scenario d
SimpleTool(tool, action, description, capture_screenshot, d) ==
    CASE tool = "playwright_navigate" -> Navigate(capture_screenshot, d)
      [] tool = "playwright_hover" -> Hover(capture_screenshot, d)
      [] tool = "playwright_fill" -> FillOrSelect("fill", d)
      [] tool = "playwright_select" -> FillOrSelect("select", d)
      [] tool = "playwright_js_locate" -> JsLocate(description, action, d)

AeAttempt(tool, target) == [strategy |-> tool, target |-> target]

ErrorAttempt(attempt, error) ==
    [k \in (DOMAIN attempt) \cup {"result", "error"} |->
        IF k = "result" THEN "error"
        ELSE IF k = "error" THEN error
        ELSE attempt[k]]

\* where the dispatch goes once tool number k-1 of the chain has failed:
\* "for i, tool_name in enumerate(tool_names[1:], 1): if i >= max_attempts: break"
AfterTool_SkipFallbacks(frame) ==
    IF frame.done THEN "done"
    ELSE IF Lower(frame.action) = "click" THEN "ae_final"
    ELSE "ae_exhausted"

AfterTool_AnyVerb(frame) ==
    IF frame.done THEN "done"
    ELSE IF frame.k <= Len(frame.tool_names) /\ frame.k - 1 < frame.max_attempts
    THEN "ae_fallback"
    ELSE "ae_final"

AfterTool_OffByOne(frame) ==
    IF frame.done THEN "done"
    ELSE IF frame.k <= Len(frame.tool_names) /\ frame.k - 1 <= frame.max_attempts
    THEN "ae_fallback"
    ELSE IF Lower(frame.action) = "click" THEN "ae_final"
    ELSE "ae_exhausted"

AfterTool(frame) ==
    IF frame.done THEN "done"
    ELSE IF frame.k <= Len(frame.tool_names) /\ frame.k - 1 < frame.max_attempts
    THEN "ae_fallback"
    ELSE IF Lower(frame.action) = "click" THEN "ae_final"
    ELSE "ae_exhausted"

AutoSuccessResult(frame, tool, result) ==
    IF frame.k = 1
    THEN [status |-> "success",
          message |-> "Action completed successfully with direct tool",
          tool_used |-> tool,
          details |-> result]
    ELSE [status |-> "success",
          message |-> "Action completed successfully with fallback tool",
          tool_used |-> tool,
          fallback_attempt |-> frame.k - 1,
          details |-> result]

\* "if result.get(status) == success: ... return ... else: ... attempts.append"
ToolReported_IgnoreSuccess(frame, tool, result) ==
    [frame EXCEPT
        !.attempts = Append(@, FailedAttempt(AeAttempt(tool, frame.target),
                                             "Unknown error")),
        !.k = @ + 1]

ToolReported(frame, tool, result) ==
    IF result.status = "success"
    THEN [frame EXCEPT
            !.attempts = Append(@, SuccessAttempt(AeAttempt(tool, frame.target))),
            !.done = TRUE,
            !.result = AutoSuccessResult(frame, tool, result)]
    ELSE [frame EXCEPT
            !.attempts = Append(@, FailedAttempt(AeAttempt(tool, frame.target),
                                    IF "message" \in DOMAIN result
                                    THEN result.message ELSE "Unknown error")),
            !.k = @ + 1]

\* the "except Exception" of one tool attempt
ToolRaised(frame, tool, error) ==
    [frame EXCEPT
        !.attempts = Append(@, ErrorAttempt(AeAttempt(tool, frame.target), error)),
        !.k = @ + 1]

\* primary tool absent or not callable: the attempt is appended, the raise
\* is caught by the same try and the same dict is appended again
PrimaryUnavailable(frame, tool, error) ==
    [frame EXCEPT
        !.attempts = @ \o << ErrorAttempt(AeAttempt(tool, frame.target), error),
                             ErrorAttempt(AeAttempt(tool, frame.target), error) >>,
        !.k = @ + 1]

AutoEntry(action, target, page_index, max_attempts, capture_screenshot, kwargs, tools) ==
    LET frame == [active |-> TRUE, action |-> action, target |-> target,
                  page_index |-> page_index, max_attempts |-> max_attempts,
                  capture_screenshot |-> capture_screenshot,
                  kwargs |-> kwargs, tools |-> tools,
                  tool_names |-> ToolNames(action), k |-> 1,
                  attempts |-> <<>>, invoked |-> <<>>, reported |-> <<>>,
                  last_resort |-> 0, driver_ok |-> FALSE,
                  exhausted |-> FALSE, done |-> FALSE, result |-> NoResult]
    IN IF GetPage(page_index) = None
       THEN [frame EXCEPT !.done = TRUE, !.result = InvalidPageResult]
       ELSE frame

CallAutoExecute ==
    /\ pc = "idle"
    /\ UNCHANGED <<searchVars, sessionVars, toolVars>>
    /\ \E action \in AutoActions, page_index \in PageIndexes,
          max_attempts \in AttemptLimits, capture_screenshot \in BOOLEAN,
          kwargs \in ExtraKwargs :
        \E tools \in ToolObjects(action) :
          LET frame == AutoEntry(action, Desc, page_index, max_attempts,
                                 capture_screenshot, kwargs, tools)
          IN /\ ae' = frame
             /\ pc' = IF frame.done THEN "done" ELSE "ae_primary"
    /\ ret' = "top"
    /\ UNCHANGED <<loc, sc, tried, acted, issued, faults>>

\* the call of a tool that runs over several steps: its frame is set up
\* and the dispatcher waits at retTo
EnterFrameTool(tool, retTo) ==
    /\ ret' = retTo
    /\ IF tool = "playwright_smart_click"
       THEN LET frame == SmartEntry(ae.target, None, "any", ae.page_index,
                                    ae.capture_screenshot, FALSE, None)
            IN /\ sc' = frame
               /\ pc' = IF frame.done THEN retTo ELSE "sc_check"
               /\ loc' = loc
       ELSE LET frame == LocateEntry(ae.target, <<>>, ae.action, ae.page_index,
                                     ae.capture_screenshot, FALSE)
            IN /\ loc' = frame
               /\ pc' = IF frame.done THEN retTo ELSE "loc_sel"
               /\ sc' = sc
    /\ UNCHANGED <<tried, acted, issued, faults>>

\* no driver call of the scenario raised
DriverOk(d) == \A f \in DOMAIN d : d[f] # "raise"

\* the call of a one-step tool
RunSimpleTool(tool) ==
    \E d \in ToolScenarios(tool) :
        LET r == SimpleTool(tool, ae.action, ae.target, ae.capture_screenshot, d)
            frame == ToolReported(
                         [ae EXCEPT !.invoked = Append(@, tool),
                                    !.driver_ok = DriverOk(d),
                                    !.reported = Append(@, [tool |-> tool,
                                                    status |-> r.res.status])],
                         tool, r.res)
        IN /\ ae' = frame
           /\ pc' = AfterTool(frame)
           /\ issued' = Issue(tool)
           /\ acted' = Acted(tool, tool, r.acted)
           /\ UNCHANGED <<ret, loc, sc, tried, faults>>

\* "First attempt: Try the primary tool for this action"
AutoPrimary ==
    /\ pc = "ae_primary"
    /\ UNCHANGED <<searchVars, sessionVars, toolVars>>
    /\ LET tool == ae.tool_names[1]
       IN IF ae.tools[tool] = "absent"
          THEN /\ ae' = PrimaryUnavailable(ae, tool, "does not exist")
               /\ pc' = AfterTool(ae')
               /\ UNCHANGED <<ret, loc, sc, tried, acted, issued, faults>>
          ELSE IF ae.tools[tool] = "noncallable"
          THEN /\ ae' = PrimaryUnavailable(ae, tool, "is not callable")
               /\ pc' = AfterTool(ae')
               /\ UNCHANGED <<ret, loc, sc, tried, acted, issued, faults>>
          ELSE IF ~ArgsAccepted(tool, PrimaryArgs(tool, ae.kwargs))
          THEN /\ ae' = ToolRaised([ae EXCEPT !.invoked = Append(@, tool)],
                                   tool, "exc")
               /\ pc' = AfterTool(ae')
               /\ UNCHANGED <<ret, loc, sc, tried, acted, issued, faults>>
          ELSE IF tool \in FrameTools
          THEN /\ ae' = [ae EXCEPT !.invoked = Append(@, tool)]
               /\ EnterFrameTool(tool, "ae_primary_ret")
          ELSE RunSimpleTool(tool)

\* the result of the running tool, as a dict
FrameResult(tool) ==
    IF tool = "playwright_smart_click" THEN sc.result ELSE loc.result

AutoPrimaryReturned ==
    /\ pc = "ae_primary_ret"
    /\ UNCHANGED <<searchVars, sessionVars, toolVars>>
    /\ LET tool == ae.tool_names[1]
           frame == ToolReported(
                        [ae EXCEPT !.reported = Append(@, [tool |-> tool,
                                        status |-> FrameResult(tool).status])],
                        tool, FrameResult(tool))
       IN /\ ae' = frame
          /\ pc' = AfterTool(frame)
    /\ ret' = "top"
    /\ UNCHANGED <<loc, sc, tried, acted, issued, faults>>

\* "Fallback attempts: Try alternate tools": one iteration of the loop
AutoFallback ==
    /\ pc = "ae_fallback"
    /\ UNCHANGED <<searchVars, sessionVars, toolVars>>
    /\ LET tool == ae.tool_names[ae.k]
       IN IF ae.tools[tool] = "absent"
          THEN /\ ae' = ToolRaised(ae, tool, "does not exist")
               /\ pc' = AfterTool(ae')
               /\ UNCHANGED <<ret, loc, sc, tried, acted, issued, faults>>
          ELSE IF ae.tools[tool] = "noncallable"
          THEN /\ ae' = ToolRaised(ae, tool, "is not callable")
               /\ pc' = AfterTool(ae')
               /\ UNCHANGED <<ret, loc, sc, tried, acted, issued, faults>>
          ELSE IF ~ArgsAccepted(tool, FallbackArgs(tool, ae.kwargs))
          THEN /\ ae' = ToolRaised([ae EXCEPT !.invoked = Append(@, tool)],
                                   tool, "exc")
               /\ pc' = AfterTool(ae')
               /\ UNCHANGED <<ret, loc, sc, tried, acted, issued, faults>>
          ELSE IF tool \in FrameTools
          THEN /\ ae' = [ae EXCEPT !.invoked = Append(@, tool)]
               /\ EnterFrameTool(tool, "ae_fallback_ret")
          ELSE RunSimpleTool(tool)

AutoFallbackReturned ==
    /\ pc = "ae_fallback_ret"
    /\ UNCHANGED <<searchVars, sessionVars, toolVars>>
    /\ LET tool == ae.tool_names[ae.k]
           frame == ToolReported(
                        [ae EXCEPT !.reported = Append(@, [tool |-> tool,
                                        status |-> FrameResult(tool).status])],
                        tool, FrameResult(tool))
       IN /\ ae' = frame
          /\ pc' = AfterTool(frame)
    /\ ret' = "top"
    /\ UNCHANGED <<loc, sc, tried, acted, issued, faults>>

JsDirectAttempt(target) == [strategy |-> "js_direct_click", target |-> target]

\* "Final fallback": for click, a script click as last resort
AutoFinalFallback ==
    /\ pc = "ae_final"
    /\ UNCHANGED <<searchVars, sessionVars, toolVars>>
    /\ \E o \in {"eval_raise", "not_found", "shot_raise", "ok"} :
        LET attempt == JsDirectAttempt(ae.target)
            clicked == o \in {"shot_raise", "ok"}
        IN /\ o = "shot_raise" => (ae.capture_screenshot /\ faults < MaxFaults)
           /\ faults' = IF o = "shot_raise" THEN faults + 1 ELSE faults
           /\ issued' = Issue("auto_execute")
           /\ acted' = IF clicked
                       THEN Acted("auto_execute", "js_direct_click", "click")
                       ELSE acted
           /\ IF o = "ok"
              THEN /\ ae' = [ae EXCEPT
                        !.last_resort = @ + 1,
                        !.attempts = Append(@, SuccessAttempt(attempt)),
                        !.done = TRUE,
                        !.result =
                            [status |-> "success",
                             message |-> "Clicked element via direct JavaScript as last resort",
                             tool_used |-> "js_direct_click",
                             element_info |-> "elementInfo",
                             screenshot |-> IF ae.capture_screenshot
                                            THEN "js_direct_click.png" ELSE None]]
                   /\ pc' = "done"
              ELSE /\ ae' = [ae EXCEPT
                        !.last_resort = @ + 1,
                        !.attempts =
                            IF o = "eval_raise"
                            THEN Append(@, ErrorAttempt(attempt, "exc"))
                            ELSE IF o = "not_found"
                            THEN Append(@, FailedAttempt(attempt, "Element not found"))
                            ELSE @ \o << ErrorAttempt(attempt, "exc"),
                                         ErrorAttempt(attempt, "exc") >>]
                   /\ pc' = "ae_exhausted"
    /\ UNCHANGED <<ret, loc, sc, tried>>

\* "All attempts failed": what the dispatch returns
AutoExhaustedResult(target, attempts, debug_screenshot) ==
    [status |-> "error",
     message |-> "Failed to perform action after all attempts",
     attempts |-> attempts,
     debug_screenshot |-> debug_screenshot,
     suggestion |-> "Try a more specific target or a different approach"]

\* the outer "except Exception" of auto_execute
AutoExceptionResult_Propagate == [status |-> "exception"]

AutoExceptionResult == [status |-> "error", message |-> "exc"]

AutoExhausted ==
    /\ pc = "ae_exhausted"
    /\ UNCHANGED <<searchVars, sessionVars, toolVars>>
    /\ \E o \in {"shot_raise", "ok"} :
        /\ o = "shot_raise" => (ae.capture_screenshot /\ faults < MaxFaults)
        /\ faults' = IF o = "shot_raise" THEN faults + 1 ELSE faults
        /\ issued' = IF ae.capture_screenshot THEN Issue("auto_execute") ELSE issued
        /\ ae' = [ae EXCEPT
              !.exhausted = TRUE,
              !.done = TRUE,
              !.result =
                  IF o = "ok"
                  THEN AutoExhaustedResult(ae.target, ae.attempts,
                           IF ae.capture_screenshot
                           THEN "auto_execute_failed.png" ELSE None)
                  ELSE AutoExceptionResult]
    /\ pc' = "done"
    /\ UNCHANGED <<ret, loc, sc, tried, acted>>

\* the caller takes the result; the next call starts from a fresh state
Return ==
    /\ pc = "done"
    /\ UNCHANGED <<searchVars, sessionVars, toolVars>>
    /\ pc' = "idle"
    /\ ret' = "top"
    /\ loc' = LocIdle
    /\ sc' = ScIdle
    /\ ae' = AeIdle
    /\ tried' = <<>>
    /\ acted' = <<>>
    /\ issued' = {}
    /\ faults' = 0

Next ==
    \/ CallLocate
    \/ LocateTrySelector
    \/ LocateTryAccessibility
    \/ LocateTryVision
    \/ LocateTryJavascript
    \/ LocateExhausted
    \/ CallSmartClick
    \/ SmartDirectClick
    \/ SmartCheckText
    \/ SmartTrySelector
    \/ SmartAccessibilityClick
    \/ SmartExhausted
    \/ CallAutoExecute
    \/ AutoPrimary
    \/ AutoPrimaryReturned
    \/ AutoFallback
    \/ AutoFallbackReturned
    \/ AutoFinalFallback
    \/ AutoExhausted
    \/ Return

Spec == Init /\ [][Next]_vars

\* ===================================================================
\* Element search: playwright_find_element and the scan of
\* playwright_js_locate.  A string is a sequence of characters.
\* ===================================================================
\* score added for a text match, for an attribute match; default max_results
TextScore == 10
AttrScore == 5
DefaultMaxResults == 5
\* "slice(0, 5)" of the scan
JsTopMatches == 5

LowerChar(c) == IF c = "A" THEN "a" ELSE IF c = "B" THEN "b" ELSE c

\* str.lower() / toLowerCase()
LowerStr(str) == [i \in 1..Len(str) |-> LowerChar(str[i])]

\* "needle in hay" / hay.includes(needle)
Contains(hay, needle) ==
    \E i \in 0..(Len(hay) - Len(needle)) :
        \A j \in 1..Len(needle) : hay[i + j] = needle[j]

\* str.split(): the whitespace-separated words, in order
RECURSIVE SplitFrom(_, _, _)
SplitFrom(str, i, word) ==
    IF i > Len(str)
    THEN IF word = <<>> THEN <<>> ELSE <<word>>
    ELSE IF str[i] = " "
    THEN (IF word = <<>> THEN <<>> ELSE <<word>>) \o SplitFrom(str, i + 1, <<>>)
    ELSE SplitFrom(str, i + 1, Append(word, str[i]))

\* keywords = description.lower().split()
Keywords(description) == SplitFrom(LowerStr(description), 1, <<>>)

\* any(keyword.lower() in value.lower() for keyword in keywords)
AnyKeywordIn(keywords, value) ==
    \E k \in 1..Len(keywords) : Contains(LowerStr(value), LowerStr(keywords[k]))

\* the relevance score of playwright_find_element: every attribute of the
\* element is looked at
FindElementScore(keywords, text, attributes) ==
    (IF text # <<>> /\ AnyKeywordIn(keywords, text) THEN TextScore ELSE 0)
    + AttrScore * Cardinality({ a \in DOMAIN attributes :
                                  attributes[a] # <<>>
                                  /\ AnyKeywordIn(keywords, attributes[a]) })

ScanAttributes == {"placeholder", "title", "aria-label", "alt", "name"}

\* the score of the scan of playwright_js_locate: the whole lower-cased
\* description is the one search string
JsScanScore(description, text, attributes) ==
    (IF Contains(LowerStr(text), LowerStr(description)) THEN TextScore ELSE 0)
    + AttrScore * Cardinality({ a \in (DOMAIN attributes) \cap ScanAttributes :
                                  Contains(LowerStr(attributes[a]),
                                           LowerStr(description)) })

\* list.sort(key=relevance, reverse=True) / Array.sort((a, b) => b - a):
\* a stable sort, descending
RECURSIVE SortByRelevance(_)
SortByRelevance(found) ==
    IF found = <<>> THEN <<>>
    ELSE LET best == CHOOSE i \in 1..Len(found) :
                        /\ \A j \in 1..Len(found) :
                              found[j].relevance <= found[i].relevance
                        /\ \A j \in 1..(i - 1) :
                              found[j].relevance < found[i].relevance
             rest == [j \in 1..(Len(found) - 1) |->
                        IF j < best THEN found[j] ELSE found[j + 1]]
         IN <<found[best]>> \o SortByRelevance(rest)

\* found_elements[:max_results], a Python slice
Limit(found, max_results) ==
    IF max_results >= 0
    THEN SubSeq(found, 1, IF max_results < Len(found) THEN max_results ELSE Len(found))
    ELSE SubSeq(found, 1, Len(found) + max_results)

\* "if score > 0: found_elements.append(element_info)", in discovery order
RECURSIVE ScoredElements(_, _)
ScoredElements(keywords, elements) ==
    IF elements = <<>> THEN <<>>
    ELSE LET e == Head(elements)
             score == FindElementScore(keywords, e.text, e.attributes)
         IN (IF score > 0
             THEN <<[text |-> e.text, attributes |-> e.attributes,
                     relevance |-> score]>>
             ELSE <<>>)
            \o ScoredElements(keywords, Tail(elements))

\* "if (score > 0) matches.push(...)" of the scan
RECURSIVE ScanMatches(_, _)
ScanMatches(description, elements) ==
    IF elements = <<>> THEN <<>>
    ELSE LET e == Head(elements)
             score == JsScanScore(description, e.text, e.attributes)
         IN (IF score > 0
             THEN <<[text |-> e.text, relevance |-> score]>>
             ELSE <<>>)
            \o ScanMatches(description, Tail(elements))

\* inputs: descriptions, the elements a page can hold, max_results
SearchDescriptions == { <<"a">>, <<"A", " ", "b">> }

NoAttributes == [a \in {} |-> <<>>]

PageElements ==
    { [text |-> <<"a">>, attributes |-> NoAttributes],
      [text |-> <<"c", "A">>, attributes |-> NoAttributes],
      [text |-> <<"a">>, attributes |-> [title |-> <<"a">>, name |-> <<"A">>]],
      [text |-> <<"c">>, attributes |-> [class |-> <<"a">>]],
      [text |-> <<"c">>, attributes |-> NoAttributes],
      [text |-> <<>>, attributes |-> [a \in {"aria-label"} |-> <<"b">>]] }

\* the elements the driver returns over the selectors, in discovery order
Discoveries ==
    UNION { [1..n -> PageElements] : n \in 0..MaxElems }

MaxResultsArgs == {-1, 0, 1, 2, DefaultMaxResults}

\* playwright_find_element
CallFindElement ==
    /\ ~fe.active
    /\ \E description \in SearchDescriptions, page_index \in PageIndexes,
          max_results \in MaxResultsArgs, elements \in Discoveries,
          o \in {"ok", "raise"} :
          fe' = [active |-> TRUE, fn |-> "playwright_find_element",
                 description |-> description, max_results |-> max_results,
                 elements |-> elements,
                 result |->
                    IF GetPage(page_index) = None THEN InvalidPageResult
                    ELSE IF o = "raise"
                    THEN [status |-> "error", message |-> "exc"]
                    ELSE [status |-> "success",
                          message |-> "Found elements matching description",
                          elements |->
                              Limit(SortByRelevance(
                                        ScoredElements(Keywords(description),
                                                       elements)),
                                    max_results)]]
    /\ UNCHANGED <<resolutionVars, sessionVars, toolVars>>

\* playwright_js_locate with action = "find": the scan and its return
CallJsLocateFind ==
    /\ ~fe.active
    /\ \E description \in SearchDescriptions, page_index \in PageIndexes,
          elements \in Discoveries, o \in {"ok", "raise"} :
          LET matches == SortByRelevance(ScanMatches(description, elements))
              top == IF Len(matches) > JsTopMatches
                     THEN SubSeq(matches, 1, JsTopMatches) ELSE matches
          IN fe' = [active |-> TRUE, fn |-> "playwright_js_locate",
                    description |-> description, max_results |-> JsTopMatches,
                    elements |-> elements,
                    result |->
                       IF GetPage(page_index) = None THEN InvalidPageResult
                       ELSE IF o = "raise"
                       THEN [status |-> "error", message |-> "exc"]
                       ELSE IF Len(top) > 0
                       THEN [status |-> "success",
                             message |-> "Found elements",
                             elements |-> top]
                       ELSE [status |-> "error",
                             message |-> "No elements found matching description"]]
    /\ UNCHANGED <<resolutionVars, sessionVars, toolVars>>

\* the caller takes the result of the search
SearchReturn ==
    /\ fe.active
    /\ fe' = FeIdle
    /\ UNCHANGED <<resolutionVars, sessionVars, toolVars>>

FindNext ==
    \/ CallFindElement
    \/ CallJsLocateFind
    \/ SearchReturn

FindSpec == Init /\ [][FindNext]_vars

\* ===================================================================
\* The session's page collection: playwright_close, and a caller that
\* addresses a page by an index it obtained earlier.  A call is suspended
\* at its await, where the calls of other callers run.
\* ===================================================================
\* list.pop(i) on a 0-based index
Pop_Last(list, i) == SubSeq(list, 1, Len(list) - 1)

Pop(list, i) ==
    [n \in 1..(Len(list) - 1) |-> IF n <= i THEN list[n] ELSE list[n + 1]]

CloseIndexes == -1..NumPages

\* a call suspended at an await: the function, the await it waits at, its
\* page_index argument, the page handle it awaits on and its local
\* new_page_index (-1 while unset)
Suspended(fn, at, page_index, target, new_page_index) ==
    [fn |-> fn, at |-> at, page_index |-> page_index, target |-> target,
     new_page_index |-> new_page_index]

SuspendedAt(at) == { c \in BagToSet(calls) : c.at = at }

\* playwright_close up to its await: the index check, then
\* self.pages[page_index].close() is issued on the page found there
CloseBegin ==
    /\ closed = NoCall /\ opened = NoCall
    /\ BagCardinality(calls) < NumCallers
    /\ \E page_index \in CloseIndexes :
          IF page_index < 0 \/ page_index >= Len(pages)
          THEN /\ closed' = [page_index |-> page_index, target |-> None,
                              driver |-> "-",
                              before |-> pages, result |-> InvalidPageResult]
               /\ calls' = calls
          ELSE /\ calls' = calls (+) SetToBag({Suspended("playwright_close",
                                       "close", page_index, pages[page_index + 1], -1)})
               /\ closed' = closed
    /\ UNCHANGED <<pages, opened, held, used, resolutionVars, searchVars, toolVars>>

\* playwright_close after its await: the driver closed the page or raised;
\* then self.pages.pop(page_index), which raises on an index out of range
CloseEnd ==
    /\ closed = NoCall /\ opened = NoCall
    /\ \E call \in SuspendedAt("close"), o \in {"ok", "raise"} :
          LET popped == o = "ok" /\ call.page_index < Len(pages)
          IN /\ calls' = calls (-) SetToBag({call})
             /\ pages' = IF popped THEN Pop(pages, call.page_index) ELSE pages
             /\ closed' = [page_index |-> call.page_index,
                            target |-> call.target,
                            driver |-> o,
                            before |-> pages,
                            result |->
                               IF popped
                               THEN [status |-> "success",
                                     message |-> "Closed page",
                                     pages_count |-> Len(pages) - 1]
                               ELSE [status |-> "error", message |-> "exc"]]
    /\ UNCHANGED <<opened, held, used, resolutionVars, searchVars, toolVars>>

\* the caller takes the result of its close
CloseReturn ==
    /\ closed # NoCall
    /\ closed' = NoCall
    /\ UNCHANGED <<pages, calls, opened, held, used, resolutionVars, searchVars, toolVars>>

\* the page handles some part of the state refers to
Referenced ==
    { pages[n] : n \in 1..Len(pages) }
        \cup { c.target : c \in BagToSet(calls) }
        \cup { held.page }
        \cup (IF used.status = "success" THEN {used.page, used.designated} ELSE {})

\* the handles that come after every handle referred to
UnusedHandles ==
    { n \in 1..Len(PageHandles) :
        \A m \in n..Len(PageHandles) : PageHandles[m] \notin Referenced }

\* the handle of a page the browser opens: one that names no other page
NewPage ==
    PageHandles[CHOOSE n \in UnusedHandles : \A m \in UnusedHandles : n <= m]

\* playwright_click_and_switch_tab up to its first await: _get_page, then
\* the click is issued inside page.expect_popup()
ClickAndSwitchTabBegin ==
    /\ closed = NoCall /\ opened = NoCall
    /\ BagCardinality(calls) < NumCallers
    /\ Len(pages) + Cardinality(SuspendedAt("popup")) < MaxPages
    /\ \E page_index \in CloseIndexes :
          IF GetPage(page_index) = None
          THEN /\ opened' = [page_index |-> page_index, new_page |-> None,
                              result |-> InvalidPageResult]
               /\ calls' = calls
          ELSE /\ calls' = calls (+) SetToBag({Suspended(
                                       "playwright_click_and_switch_tab",
                                       "popup", page_index, GetPage(page_index), -1)})
               /\ opened' = opened
    /\ UNCHANGED <<pages, closed, held, used, resolutionVars, searchVars, toolVars>>

\* the click and the popup have been awaited: either raised, or the new
\* page is appended and the call waits for it to load
ClickAndSwitchTabAppend ==
    /\ closed = NoCall /\ opened = NoCall
    /\ \E call \in SuspendedAt("popup"), o \in {"ok", "raise"} :
          IF o = "raise"
          THEN /\ calls' = calls (-) SetToBag({call})
               /\ pages' = pages
               /\ opened' = [page_index |-> call.page_index, new_page |-> None,
                              result |-> [status |-> "error", message |-> "exc"]]
          ELSE /\ UnusedHandles # {}
               /\ pages' = Append(pages, NewPage)
               /\ calls' = (calls (-) SetToBag({call}))
                              (+) SetToBag({Suspended(call.fn, "load",
                                               call.page_index, NewPage, Len(pages))})
               /\ opened' = opened
    /\ UNCHANGED <<closed, held, used, resolutionVars, searchVars, toolVars>>

\* the new page has been awaited (load state, title, screenshot): the call
\* returns the index it computed when it appended the page, or the error
ClickAndSwitchTabEnd ==
    /\ closed = NoCall /\ opened = NoCall
    /\ \E call \in SuspendedAt("load"), o \in {"ok", "raise"} :
          /\ calls' = calls (-) SetToBag({call})
          /\ opened' = [page_index |-> call.page_index, new_page |-> call.target,
                         result |->
                            IF o = "ok"
                            THEN [status |-> "success",
                                  message |-> "Clicked element and switched to new tab",
                                  original_page_index |-> call.page_index,
                                  new_page_index |-> call.new_page_index]
                            ELSE [status |-> "error", message |-> "exc"]]
    /\ UNCHANGED <<pages, closed, held, used, resolutionVars, searchVars, toolVars>>

\* the caller takes the result of its click_and_switch_tab
ClickAndSwitchTabReturn ==
    /\ opened # NoCall
    /\ opened' = NoCall
    /\ UNCHANGED <<pages, calls, closed, held, used, resolutionVars, searchVars, toolVars>>

\* a caller learns the index of a page of the session
ObtainIndex ==
    /\ held = NoHandle
    /\ used = NotUsed
    /\ \E i \in 0..(Len(pages) - 1) :
          held' = [index |-> i, page |-> pages[i + 1]]
    /\ UNCHANGED <<pages, calls, closed, opened, used, resolutionVars, searchVars, toolVars>>

\* an index-addressed tool called with the held index:
\* "page = await self._get_page(page_index); if not page: return error"
UseHeldIndex ==
    /\ held # NoHandle
    /\ used' = IF GetPage(held.index) = None
                THEN InvalidPageResult
                ELSE [status |-> "success", page |-> GetPage(held.index),
                      designated |-> held.page]
    /\ held' = NoHandle
    /\ UNCHANGED <<pages, calls, closed, opened, resolutionVars, searchVars, toolVars>>

\* the caller takes the result of the tool
UseReturn ==
    /\ used # NotUsed
    /\ used' = NotUsed
    /\ UNCHANGED <<pages, calls, closed, opened, held, resolutionVars, searchVars, toolVars>>

\* playwright_close calls, and a caller using an index it holds
SessionNext ==
    \/ CloseBegin
    \/ CloseEnd
    \/ CloseReturn
    \/ ObtainIndex
    \/ UseHeldIndex
    \/ UseReturn

SessionSpec == Init /\ [][SessionNext]_vars

\* playwright_close and playwright_click_and_switch_tab calls of one
\* session, interleaved at their awaits
CollectionNext ==
    \/ CloseBegin
    \/ CloseEnd
    \/ CloseReturn
    \/ ClickAndSwitchTabBegin
    \/ ClickAndSwitchTabAppend
    \/ ClickAndSwitchTabEnd
    \/ ClickAndSwitchTabReturn

CollectionSpec == Init /\ [][CollectionNext]_vars

\* ===================================================================
\* playwright_highlight_element: the element's outline, z-index and
\* position are overridden, a screenshot is taken, and they are set back.
\* ===================================================================
\* the first script: what it leaves on the element
Highlighted(style, color) ==
    [outline |-> IF color = "red" THEN "3px solid red"      \* `3px solid ${color}`
                 ELSE "3px solid blue",
     zIndex |-> "9999",
     position |-> IF style.position = "static" THEN "relative"
                  ELSE style.position]

\* the first script: what it returns as original_style
OriginalStyle(style) ==
    [outline |-> style.outline, zIndex |-> style.zIndex,
     position |-> style.position]

\* the second script: what it leaves on the element
Restored(style, original_style) ==
    [style EXCEPT !.outline = original_style.outline,
                  !.zIndex = original_style.zIndex,
                  !.position = original_style.position]

HighlightFailed(frame, message) ==
    [frame EXCEPT !.pc = "done",
                  !.result = [status |-> "error", message |-> message]]

\* the page gives the element its inline style, between two calls
PageStylesElement ==
    /\ hl.pc = "idle"
    /\ elem_style' \in [outline : {"", "1px dotted"}, zIndex : {"", "5"},
                        position : {"", "static", "absolute"}]
    /\ elem_style' # elem_style
    /\ UNCHANGED <<hl, consoleVars, codegenVars, resolutionVars, searchVars,
                   sessionVars>>

\* entry: _get_page, then page.query_selector(selector)
CallHighlightElement ==
    /\ hl.pc = "idle"
    /\ \E color \in {"red", "blue"}, page_index \in PageIndexes,
          o \in {"raise", "none", "element"} :
          LET frame == [pc |-> "hl_apply", color |-> color,
                        page_index |-> page_index, applied |-> FALSE,
                        before |-> elem_style, original_style |-> None,
                        result |-> NoResult]
          IN hl' = IF GetPage(page_index) = None
                   THEN [frame EXCEPT !.pc = "done", !.result = InvalidPageResult]
                   ELSE IF o = "raise" THEN HighlightFailed(frame, "exc")
                   ELSE IF o = "none" THEN HighlightFailed(frame, "Element not found")
                   ELSE frame
    /\ UNCHANGED <<elem_style, consoleVars, codegenVars, resolutionVars,
                   searchVars, sessionVars>>

\* "Add highlight": the first page.evaluate
HighlightApply ==
    /\ hl.pc = "hl_apply"
    /\ \E o \in {"raise", "ok"} :
          IF o = "raise"
          THEN /\ hl' = HighlightFailed(hl, "exc")
               /\ elem_style' = elem_style
          ELSE /\ hl' = [hl EXCEPT !.pc = "hl_shot", !.applied = TRUE,
                                   !.original_style = OriginalStyle(elem_style)]
               /\ elem_style' = Highlighted(elem_style, hl.color)
    /\ UNCHANGED <<consoleVars, codegenVars, resolutionVars, searchVars,
                   sessionVars>>

\* "Take screenshot with highlight", then the sleep
HighlightScreenshot ==
    /\ hl.pc = "hl_shot"
    /\ \E o \in {"raise", "ok"} :
          hl' = IF o = "raise" THEN HighlightFailed(hl, "exc")
                ELSE [hl EXCEPT !.pc = "hl_restore"]
    /\ UNCHANGED <<elem_style, consoleVars, codegenVars, resolutionVars,
                   searchVars, sessionVars>>

\* "Remove highlight": the second page.evaluate, then the success return
HighlightRestore ==
    /\ hl.pc = "hl_restore"
    /\ \E o \in {"raise", "ok"} :
          IF o = "raise"
          THEN /\ hl' = HighlightFailed(hl, "exc")
               /\ elem_style' = elem_style
          ELSE /\ hl' = [hl EXCEPT !.pc = "done",
                                   !.result = [status |-> "success",
                                               message |-> "Highlighted element",
                                               screenshot |-> "highlight.png"]]
               /\ elem_style' = Restored(elem_style, hl.original_style)
    /\ UNCHANGED <<consoleVars, codegenVars, resolutionVars, searchVars,
                   sessionVars>>

\* the caller takes the result of the highlight
HighlightReturn ==
    /\ hl.pc = "done"
    /\ hl' = HlIdle
    /\ UNCHANGED <<elem_style, consoleVars, codegenVars, resolutionVars,
                   searchVars, sessionVars>>

HighlightNext ==
    \/ PageStylesElement
    \/ CallHighlightElement
    \/ HighlightApply
    \/ HighlightScreenshot
    \/ HighlightRestore
    \/ HighlightReturn

HighlightSpec == Init /\ [][HighlightNext]_vars

\* ===================================================================
\* The console-log buffer and playwright_console_logs.
\* ===================================================================
\* entries the buffer holds at most
MaxLogs == 3
\* the default of the count parameter
DefaultLogCount == 10

\* the page writes to its console: the session appends the entry
PageLogsMessage ==
    /\ cl = NoCall
    /\ Len(console_logs) < MaxLogs
    /\ \E entry \in { [type |-> "log", text |-> "a"],
                      [type |-> "error", text |-> "b"] } :
          console_logs' = Append(console_logs, entry)
    /\ UNCHANGED <<cl, highlightVars, codegenVars, resolutionVars, searchVars,
                   sessionVars>>

\* the parameters of playwright_console_logs
ConsoleLogsParams == {"page_index", "count"}

\* self.console_logs[-log_count:] if log_count > 0 else []
FilteredLogs(logs, count) ==
    LET log_count == IF count < Len(logs) THEN count ELSE Len(logs)
    IN IF log_count > 0
       THEN SubSeq(logs, Len(logs) - log_count + 1, Len(logs))
       ELSE <<>>

\* what the body of playwright_console_logs returns
ConsoleLogsResult(logs, count) ==
    [status |-> "success",
     message |-> "Retrieved console logs",
     logs |-> FilteredLogs(logs, count)]

\* a keyword that is no parameter makes the call raise TypeError before the
\* body runs; PlaywrightTools.dispatch_method turns it into an error result
UnexpectedKeyword(via) ==
    IF via = "dispatch_method"
    THEN [status |-> "error", message |-> "Error in playwright_console_logs"]
    ELSE [status |-> "exception"]

\* playwright_console_logs, called directly or through dispatch_method
CallConsoleLogs ==
    /\ cl = NoCall
    /\ \E kwargs \in { {"count"}, {"count", "clear"} },
          count \in {-1, 0, 1, 2, DefaultLogCount},
          via \in {"direct", "dispatch_method"} :
          cl' = [kwargs |-> kwargs, count |-> count, via |-> via,
                 before |-> console_logs,
                 result |-> IF kwargs \subseteq ConsoleLogsParams
                            THEN ConsoleLogsResult(console_logs, count)
                            ELSE UnexpectedKeyword(via)]
    /\ console_logs' = console_logs
    /\ UNCHANGED <<highlightVars, codegenVars, resolutionVars, searchVars,
                   sessionVars>>

\* the caller takes the result
ConsoleLogsReturn ==
    /\ cl # NoCall
    /\ cl' = NoCall
    /\ UNCHANGED <<console_logs, highlightVars, codegenVars, resolutionVars,
                   searchVars, sessionVars>>

ConsoleNext ==
    \/ PageLogsMessage
    \/ CallConsoleLogs
    \/ ConsoleLogsReturn

ConsoleSpec == Init /\ [][ConsoleNext]_vars

\* ===================================================================
\* Code generation sessions: start_codegen_session, end_codegen_session.
\* The session id "session_<n>" is the number n.
\* ===================================================================
\* sessions stored at most
MaxSessions == 3

\* d[k] = v
Put(d, k, v) == [x \in (DOMAIN d) \cup {k} |-> IF x = k THEN v ELSE d[x]]

\* d.pop(k)
Remove(d, k) == [x \in (DOMAIN d) \ {k} |-> d[x]]

\* CodeGenSession(session_id, name, language)
CodeGenSession(session_id, name, language) ==
    [session_id |-> session_id, name |-> name, language |-> language,
     code |-> ""]

StartCodegenSession ==
    /\ cg = NoCall
    /\ Cardinality(DOMAIN codegen_sessions) < MaxSessions
    /\ \E session_name \in {"login", "checkout"},
          language \in {"python", "javascript"} :
          \* f"session_{len(self.codegen_sessions) + 1}"
          LET session_id == Cardinality(DOMAIN codegen_sessions) + 1
              session == CodeGenSession(session_id, session_name, language)
          IN /\ codegen_sessions' = Put(codegen_sessions, session_id, session)
             /\ cg' = [fn |-> "start_codegen_session",
                       session_id |-> session_id,
                       before |-> codegen_sessions,
                       result |-> [status |-> "success",
                                   message |-> "Code generation session started",
                                   session |-> session]]
    /\ UNCHANGED <<highlightVars, consoleVars, resolutionVars, searchVars,
                   sessionVars>>

EndCodegenSession ==
    /\ cg = NoCall
    /\ \E session_id \in 1..(MaxSessions + 1) :
          IF session_id \notin DOMAIN codegen_sessions
          THEN /\ codegen_sessions' = codegen_sessions
               /\ cg' = [fn |-> "end_codegen_session",
                         session_id |-> session_id,
                         before |-> codegen_sessions,
                         result |-> [status |-> "error",
                                     message |-> "Session not found"]]
          ELSE /\ codegen_sessions' = Remove(codegen_sessions, session_id)
               /\ cg' = [fn |-> "end_codegen_session",
                         session_id |-> session_id,
                         before |-> codegen_sessions,
                         result |-> [status |-> "success",
                                     message |-> "Code generation session ended",
                                     session |-> codegen_sessions[session_id]]]
    /\ UNCHANGED <<highlightVars, consoleVars, resolutionVars, searchVars,
                   sessionVars>>

\* the caller takes the result
CodegenReturn ==
    /\ cg # NoCall
    /\ cg' = NoCall
    /\ UNCHANGED <<codegen_sessions, highlightVars, consoleVars,
                   resolutionVars, searchVars, sessionVars>>

CodegenNext ==
    \/ StartCodegenSession
    \/ EndCodegenSession
    \/ CodegenReturn

CodegenSpec == Init /\ [][CodegenNext]_vars

\* ===================================================================
\* Properties
\* ===================================================================
LocPageValid == GetPage(loc.page_index) # None
LocRequestValid == loc.description # None \/ Len(loc.selectors) > 0

\* position k of the fixed strategy order of one locate call
ExpectedStrategy(k) ==
    IF k <= Len(loc.standard_selectors) THEN "standard_selector"
    ELSE IF k = Len(loc.standard_selectors) + 1 THEN "accessibility_tree"
    ELSE IF k = Len(loc.standard_selectors) + 2 THEN "vision_locator"
    ELSE "javascript"

NoStrategySucceeded == \A k \in 1..Len(tried) : ~tried[k].ok

\* C1: multi_strategy_locate tries the standard selectors in list order,
\* then accessibility tree, vision and JavaScript; a strategy is attempted
\* only if every earlier one did not succeed, and the call returns success
\* naming the first strategy that found the element and performed the
\* action, nothing being attempted after it.
C1_FixedOrderStopsAtFirstSuccess ==
    loc.active =>
        /\ Len(tried) <= Len(loc.standard_selectors) + 3
        /\ \A k \in 1..Len(tried) :
              /\ tried[k].strategy = ExpectedStrategy(k)
              /\ k <= Len(loc.standard_selectors)
                    => tried[k].target = loc.standard_selectors[k]
              /\ tried[k].ok =>
                    /\ k = Len(tried)
                    /\ loc.done
                    /\ loc.result.status = "success"
                    /\ "strategy_used" \in DOMAIN loc.result
                    /\ loc.result.strategy_used = tried[k].strategy

\* C2: with neither a description nor a non-empty selectors list the call
\* returns the validation error at once: no strategy attempted, no driver
\* call issued, empty attempt trail, and never success, optional or not.
C2_InvalidRequestImmediate ==
    (loc.active /\ ~(loc.description # None \/ Len(loc.selectors) > 0)) =>
        /\ loc.done
        /\ loc.result.status = "error"
        /\ LocPageValid => loc.result = InvalidRequestResult
        /\ tried = <<>>
        /\ loc.attempts = <<>>
        /\ issued = {}
        /\ acted = <<>>

C2_Witness ==
    /\ loc.active /\ loc.done /\ loc.optional /\ LocPageValid
    /\ loc.description = None /\ loc.selectors = <<>>
    /\ loc.result = InvalidRequestResult

SmartRequestValid == sc.text # None \/ sc.selector # None
SmartClicked == \E k \in 1..Len(acted) : acted[k].fn = "smart_click"

\* C3: a valid request with optional = true never ends in status error,
\* in multi_strategy_locate and in smart_click; when no strategy succeeded
\* (driver calls raising in a strategy or in the diagnostics included) the
\* outcome is success with element_found = false.
C3_OptionalNeverError ==
    /\ (loc.active /\ loc.done /\ loc.optional /\ LocPageValid /\ LocRequestValid) =>
          /\ loc.result.status = "success"
          /\ NoStrategySucceeded =>
                /\ "element_found" \in DOMAIN loc.result
                /\ loc.result.element_found = FALSE
    /\ (sc.active /\ sc.done /\ sc.optional /\ SmartRequestValid
          /\ GetPage(sc.page_index) # None) =>
          /\ sc.result.status = "success"
          /\ ~SmartClicked =>
                /\ "element_found" \in DOMAIN sc.result
                /\ sc.result.element_found = FALSE

\* a driver call raised while the diagnostics of an optional request were collected
C3_Witness ==
    /\ loc.active /\ loc.done /\ loc.optional /\ loc.exhausted
    /\ NoStrategySucceeded
    /\ "error" \in DOMAIN loc.result
    /\ loc.result.element_found = FALSE

\* C4: with optional = false, every exhaustion returns status error that
\* carries the full attempt trail and a non-null diagnostics block, also
\* when a driver call raises while the diagnostics are collected.
C4_ExhaustionCarriesTrailAndDiagnostics ==
    (loc.active /\ loc.done /\ loc.exhausted /\ ~loc.optional) =>
        /\ loc.result.status = "error"
        /\ "detailed_attempts" \in DOMAIN loc.result
        /\ loc.result.detailed_attempts = loc.attempts
        /\ "page_info" \in DOMAIN loc.result

\* C5: with explicit selectors [s1, s2, ...], s1 failing and s2 matching,
\* the call succeeds via the standard selector s2 and the first two trail
\* entries are s1 failed, s2 success.
C5_SecondSelectorTrail ==
    (loc.active /\ loc.done /\ Len(loc.selectors) >= 2 /\ Len(tried) >= 2
        /\ ~tried[1].ok /\ tried[2].ok) =>
        /\ loc.result.status = "success"
        /\ "selector_used" \in DOMAIN loc.result
        /\ loc.result.strategy_used = "standard_selector"
        /\ loc.result.selector_used = loc.standard_selectors[2]
        /\ Len(loc.attempts) >= 2
        /\ loc.attempts[1].selector = loc.standard_selectors[1]
        /\ loc.attempts[1].result = "failed"
        /\ loc.attempts[2].selector = loc.standard_selectors[2]
        /\ loc.attempts[2].result = "success"

AttemptStrategyName(k) ==
    IF ExpectedStrategy(k) = "vision_locator" THEN "vision_location"
    ELSE ExpectedStrategy(k)

\* C6: every selector or strategy attempt appends exactly one entry, in the
\* order tried, failed entries carrying their error detail, including a
\* selector whose wait returns no element without raising.
C6_OneEntryPerAttempt ==
    loc.active =>
        /\ Len(loc.attempts) = Len(tried)
        /\ \A k \in 1..Len(loc.attempts) :
              /\ loc.attempts[k].strategy = AttemptStrategyName(k)
              /\ loc.attempts[k].result = "failed"
                    => "error" \in DOMAIN loc.attempts[k]

LastResortInLocate ==
    \/ \E k \in 1..Len(acted) :
          acted[k].fn = "locate" /\ acted[k].by = "js_direct_click"
    \/ \E k \in 1..Len(loc.attempts) :
          loc.attempts[k].strategy = "js_direct_click"

FallbackRemains ==
    ae.k <= Len(ae.tool_names) /\ ae.k - 1 < ae.max_attempts

C8_NoExceptionPropagates ==
    /\ (loc.active /\ loc.done /\ LocPageValid)
          => loc.result.status \in {"success", "error"}
    /\ (ae.active /\ ae.done /\ GetPage(ae.page_index) # None)
          => ae.result.status \in {"success", "error"}

\* the failure screenshot of the dispatcher raised, after every tool failed
C8_Witness ==
    /\ ae.active /\ ae.done /\ ae.exhausted
    /\ Len(ae.attempts) > 0
    /\ "attempts" \notin DOMAIN ae.result

\* C9: a success outcome naming a strategy and action_performed = a, with
\* a in {click, fill, hover, select}, means that strategy performed the
\* driver action a on the located element during the call.
C9_ReportedActionWasPerformed ==
    (loc.active /\ loc.done /\ loc.result.status = "success"
        /\ "strategy_used" \in DOMAIN loc.result
        /\ loc.result.action_performed \in {"click", "fill", "hover", "select"}) =>
        \E k \in 1..Len(acted) :
            /\ acted[k].fn = "locate"
            /\ acted[k].by = loc.result.strategy_used
            /\ acted[k].op = loc.result.action_performed

\* C10: as soon as a tool reports success, auto_execute returns success
\* naming that tool, with no later tool and no last-resort click; for click
\* with max_attempts = 3, a failing primary and a succeeding first
\* fallback, exactly 2 attempts are recorded and tool_used is the fallback.
C10_FirstSuccessEndsDispatch ==
    ae.active =>
        /\ \A k \in 1..Len(ae.reported) :
              ae.reported[k].status = "success" =>
                  /\ k = Len(ae.reported)
                  /\ ae.done
                  /\ pc = "done"
                  /\ ae.result.status = "success"
                  /\ ae.result.tool_used = ae.reported[k].tool
                  /\ ae.invoked[Len(ae.invoked)] = ae.reported[k].tool
                  /\ ae.last_resort = 0
        /\ (/\ Lower(ae.action) = "click" /\ ae.max_attempts = 3
            /\ Len(ae.reported) = 2
            /\ ae.reported[1].status # "success"
            /\ ae.reported[2].status = "success") =>
                  /\ Len(ae.attempts) = 2
                  /\ ae.result.tool_used = ae.tool_names[2]
                  /\ ae.result.tool_used = "playwright_multi_strategy_locate"

C10_Witness ==
    /\ ae.active /\ ae.done /\ ae.action = "click" /\ ae.max_attempts = 3
    /\ Len(ae.reported) = 2
    /\ ae.reported[1] = [tool |-> "playwright_smart_click", status |-> "error"]
    /\ ae.reported[2].status = "success"
    /\ Len(ae.attempts) = 2

AePageValid == GetPage(ae.page_index) # None

\* the position of a tool in the chain of the running dispatch
ChainPos(tool) ==
    CHOOSE j \in 1..Len(ae.tool_names) : ae.tool_names[j] = tool

\* the attempt entries recorded for a tool
AttemptsOf(tool) ==
    { n \in 1..Len(ae.attempts) : ae.attempts[n].strategy = tool }

\* the tool at chain position j has an attempt entry and none is a success
ChainToolFailed(j) ==
    /\ AttemptsOf(ae.tool_names[j]) # {}
    /\ \A n \in AttemptsOf(ae.tool_names[j]) : ae.attempts[n].result # "success"

\* the dispatcher is between two tools, or has returned
AeBetweenTools == pc \in {"ae_fallback", "ae_final", "ae_exhausted", "done"}

\* C11: for every max_attempts, auto_execute invokes the primary tool
\* exactly once; the i-th fallback tool is invoked only if i < max_attempts
\* and every earlier tool of the chain failed, in chain order, so at most
\* max_attempts - 1 fallback invocations occur (none when max_attempts <= 1);
\* each invocation is recorded as one attempt.
C11_AttemptBudget ==
    (ae.active /\ AePageValid) =>
        /\ \A n \in 1..Len(ae.invoked) :
              /\ \E j \in 1..Len(ae.tool_names) : ae.tool_names[j] = ae.invoked[n]
              /\ \A m \in 1..(n - 1) :
                    ChainPos(ae.invoked[m]) < ChainPos(ae.invoked[n])
              /\ ChainPos(ae.invoked[n]) > 1 =>
                    /\ ChainPos(ae.invoked[n]) - 1 < ae.max_attempts
                    /\ \A j \in 1..(ChainPos(ae.invoked[n]) - 1) : ChainToolFailed(j)
              /\ AeBetweenTools => Cardinality(AttemptsOf(ae.invoked[n])) = 1
        /\ (pc # "ae_primary" /\ ae.tools[ae.tool_names[1]] = "method") =>
              /\ Len(ae.invoked) >= 1
              /\ ae.invoked[1] = ae.tool_names[1]
        /\ Cardinality({ n \in 1..Len(ae.invoked) : ChainPos(ae.invoked[n]) > 1 })
              <= (IF ae.max_attempts > 1 THEN ae.max_attempts - 1 ELSE 0)

\* a click dispatch with max_attempts = 2 ran the primary and one fallback,
\* and went to the last-resort step without the second fallback
C11_Witness ==
    /\ ae.active /\ ae.done /\ ae.exhausted
    /\ Lower(ae.action) = "click" /\ ae.max_attempts = 2
    /\ ae.invoked = <<"playwright_smart_click", "playwright_multi_strategy_locate">>
    /\ ae.last_resort = 1

\* the chain positions the dispatch has gone past
PastPositions ==
    { j \in 1..Len(ae.tool_names) : j < ae.k }

\* C12: a tool of the chain that is absent from the tools object or is not
\* callable gets exactly one attempt entry, with result error; nothing is
\* raised and the dispatch goes on with the next tool or the last-resort
\* step; for the primary tool as for a fallback tool.
C12_UnavailableToolOneErrorAttempt ==
    (ae.active /\ AePageValid) =>
        \A j \in PastPositions :
            ae.tools[ae.tool_names[j]] # "method" =>
                /\ Cardinality(AttemptsOf(ae.tool_names[j])) = 1
                /\ \A n \in AttemptsOf(ae.tool_names[j]) :
                      ae.attempts[n].result = "error"
                /\ ae.tool_names[j] \notin { ae.invoked[n] : n \in 1..Len(ae.invoked) }
                /\ ae.done => ae.result.status \in {"success", "error"}

LastResortClicks ==
    { n \in 1..Len(acted) : acted[n].by = "js_direct_click" }

\* C13 (as stated): the last-resort script click is performed only when
\* the verb is click and every named tool of the click chain has been
\* invoked and has failed, at most once per dispatch, never for another verb.
C13_LastResortAfterWholeChain ==
    (ae.active /\ ae.last_resort > 0) =>
        /\ Lower(ae.action) = "click"
        /\ ae.last_resort = 1
        /\ \A j \in 1..Len(ae.tool_names) :
              /\ ae.tool_names[j] \in { ae.invoked[n] : n \in 1..Len(ae.invoked) }
              /\ ChainToolFailed(j)

\* C13 (amended): the last-resort script click is performed only when the
\* verb is click and the primary tool and every fallback tool that
\* max_attempts allows (fallback i with i < max_attempts) have been tried
\* and have failed, the later tools of the chain not being tried at all;
\* it is performed at most once per dispatch and never for another verb.
C13_LastResortAfterAllowedTools ==
    /\ (ae.active /\ (ae.last_resort > 0 \/ pc = "ae_final")) =>
          /\ Lower(ae.action) = "click"
          /\ ae.last_resort = IF pc = "ae_final" THEN 0 ELSE 1
          /\ \A j \in 1..Len(ae.tool_names) :
                IF j = 1 \/ j - 1 < ae.max_attempts
                THEN ChainToolFailed(j)
                ELSE /\ AttemptsOf(ae.tool_names[j]) = {}
                     /\ ae.tool_names[j] \notin
                            { ae.invoked[n] : n \in 1..Len(ae.invoked) }
    /\ Cardinality(LastResortClicks) <= 1
    /\ LastResortClicks # {} => (ae.active /\ ae.last_resort = 1)

\* the last-resort click ran with max_attempts = 1, after the primary tool
\* only
C13_Witness ==
    /\ ae.active /\ ae.last_resort = 1 /\ ae.max_attempts = 1
    /\ ae.invoked = <<"playwright_smart_click">>
    /\ LastResortClicks # {}

\* the tools tried by the dispatch, the last-resort click included
TriedTools ==
    ae.invoked \o (IF ae.last_resort > 0 THEN <<"js_direct_click">> ELSE <<>>)

\* C14: when every tool invoked (and, for click, the last-resort click)
\* has failed, auto_execute returns status error with the complete attempts
\* list, exactly one entry per tool invoked, in invocation order, and with
\* a diagnostic screenshot reference when capture_screenshot is true.
C14_ExhaustionAttemptsComplete ==
    (ae.active /\ ae.done /\ ae.exhausted) =>
        /\ ae.result.status = "error"
        /\ "attempts" \in DOMAIN ae.result
        /\ ae.result.attempts = ae.attempts
        /\ \A n \in 1..Len(TriedTools) :
              /\ Cardinality(AttemptsOf(TriedTools[n])) = 1
              /\ \A m \in 1..(n - 1) :
                    \A a \in AttemptsOf(TriedTools[m]) :
                        \A b \in AttemptsOf(TriedTools[n]) : a < b
        /\ ae.capture_screenshot =>
              /\ "debug_screenshot" \in DOMAIN ae.result
              /\ ae.result.debug_screenshot # None

MappedVerbs == {"click", "fill", "navigate", "select", "hover"}

\* the keyword arguments the dispatch passes to the tool at chain position j
ArgsPassed(j) ==
    IF j = 1 THEN PrimaryArgs(ae.tool_names[j], ae.kwargs)
    ELSE FallbackArgs(ae.tool_names[j], ae.kwargs)

\* C15: for each verb of the map and each tool of its chain, the keyword
\* arguments auto_execute passes (without extra caller kwargs) are all
\* parameters of the tool, so no attempt of an invoked tool ends in error
\* because of an unexpected argument.
C15_PassedArgsAccepted ==
    (ae.active /\ AePageValid /\ ae.kwargs = {}
        /\ Lower(ae.action) \in MappedVerbs) =>
        /\ \A j \in 1..Len(ae.tool_names) :
              ArgsAccepted(ae.tool_names[j], ArgsPassed(j))
        /\ \A n \in 1..Len(ae.invoked) :
              \A a \in AttemptsOf(ae.invoked[n]) :
                  ae.attempts[a].result # "error"

\* C16: every exhaustion outcome of multi_strategy_locate, downgraded to
\* success by optional = true or returned as error, includes the ordered
\* attempt trail, the page snapshot and, when capture_screenshot is true,
\* the reference of the failure screenshot that was taken.
C16_EveryExhaustionHasDiagnostics ==
    (loc.active /\ loc.done /\ loc.exhausted) =>
        /\ "detailed_attempts" \in DOMAIN loc.result
        /\ loc.result.detailed_attempts = loc.attempts
        /\ "page_info" \in DOMAIN loc.result
        /\ loc.result.page_info = PageInfo
        /\ loc.capture_screenshot =>
              /\ "debug_screenshot" \in DOMAIN loc.result
              /\ loc.result.debug_screenshot # None

\* the request of the concrete scenario: description "Submit", click,
\* not optional, no screenshot, no explicit selectors
SubmitClickRequest ==
    /\ loc.active /\ LocPageValid
    /\ loc.description = Desc /\ loc.selectors = <<>>
    /\ loc.action = "click" /\ ~loc.optional /\ ~loc.capture_screenshot

\* none of the generated selectors matched
NoTemplateMatched ==
    /\ Len(tried) >= Len(loc.standard_selectors)
    /\ \A k \in 1..Len(loc.standard_selectors) : ~tried[k].ok

\* C17: for {description: "Submit", action: "click", optional: false} on
\* a page where no generated selector matches and the accessibility tree
\* has a button node named Submit, every template attempt is logged as
\* failed (4 or more entries), the accessibility-tree strategy succeeds and
\* the outcome is success, strategy_used accessibility_tree, element_found
\* true.
C17_SubmitViaAccessibilityTree ==
    (SubmitClickRequest /\ NoTemplateMatched /\ loc.a11y_button /\ loc.done) =>
        /\ Len(loc.attempts) >= 4
        /\ \A k \in 1..Len(loc.standard_selectors) :
              /\ k <= Len(loc.attempts)
              /\ loc.attempts[k].strategy = "standard_selector"
              /\ loc.attempts[k].result = "failed"
        /\ Len(tried) = Len(loc.standard_selectors) + 1
        /\ tried[Len(tried)].ok
        /\ loc.result.status = "success"
        /\ "strategy_used" \in DOMAIN loc.result
        /\ loc.result.strategy_used = "accessibility_tree"
        /\ "element_found" \in DOMAIN loc.result
        /\ loc.result.element_found = TRUE

\* the score as the rule states it: 10 for a text match with any keyword,
\* 5 for each attribute of the fixed set that matches any keyword
RuleScore(keywords, text, attributes) ==
    (IF AnyKeywordIn(keywords, text) THEN 10 ELSE 0)
    + 5 * Cardinality({ a \in (DOMAIN attributes) \cap
                          {"placeholder", "title", "aria-label", "alt", "name"} :
                          AnyKeywordIn(keywords, attributes[a]) })

\* C18: the relevance score of a candidate is 10 if its visible text
\* contains (case-insensitively) any keyword, plus 5 for each attribute of
\* {placeholder, title, aria-label, alt, name} whose value contains any
\* keyword, no other attribute contributing; playwright_find_element and
\* the scan of playwright_js_locate both compute it.
C18_ScoreFollowsRule ==
    fe.active =>
        \A n \in 1..Len(fe.elements) :
            LET e == fe.elements[n]
                rule == RuleScore(Keywords(fe.description), e.text, e.attributes)
            IN /\ FindElementScore(Keywords(fe.description), e.text, e.attributes)
                    = rule
               /\ JsScanScore(fe.description, e.text, e.attributes) = rule

\* the candidates of the running search that score above 0, in discovery
\* order
Candidates ==
    SelectSeq([n \in 1..Len(fe.elements) |->
                  [text |-> fe.elements[n].text,
                   attributes |-> fe.elements[n].attributes,
                   relevance |-> FindElementScore(Keywords(fe.description),
                                                  fe.elements[n].text,
                                                  fe.elements[n].attributes)]],
              LAMBDA c : c.relevance > 0)

\* the candidates of one score, in discovery order
WithScore(v) == SelectSeq(Candidates, LAMBDA c : c.relevance = v)

\* the candidates by non-increasing score, equal scores in discovery order
Ranking ==
    WithScore(25) \o WithScore(20) \o WithScore(15) \o WithScore(10)
        \o WithScore(5)

FindElementReturned ==
    /\ fe.active /\ fe.fn = "playwright_find_element"
    /\ fe.result.status = "success"

\* C19: the list playwright_find_element returns holds only candidates
\* with score > 0, by non-increasing score with equal scores in discovery
\* order, and has at most max_results entries (none for max_results <= 0),
\* whatever max_results the caller supplies; a candidate scoring 20 comes
\* strictly before one scoring 10.
C19_RankedAndCapped ==
    FindElementReturned =>
        LET list == fe.result.elements
        IN /\ \A n \in 1..Len(list) : list[n].relevance > 0
           /\ \A m, n \in 1..Len(list) :
                 (list[m].relevance = 20 /\ list[n].relevance = 10) => m < n
           /\ Len(list) <= Len(Ranking)
           /\ list = SubSeq(Ranking, 1, Len(list))
           /\ Len(list) <= (IF fe.max_results > 0 THEN fe.max_results ELSE 0)

\* C20: after playwright_close(k) succeeds the pages after k have moved
\* down by one index in the same order, and a caller using an index it
\* obtained before the close gets the Invalid page index error rather than
\* having its operation applied to another page than the one the index
\* designated when it was obtained.
C20_StaleIndexDetected ==
    /\ (closed # NoCall /\ closed.result.status = "success") =>
          /\ Len(pages) = Len(closed.before) - 1
          /\ \A n \in 1..Len(pages) :
                pages[n] = IF n <= closed.page_index
                           THEN closed.before[n]
                           ELSE closed.before[n + 1]
    /\ used.status = "success" => used.page = used.designated

\* the driver actions of the running resolution that completed on an element
PageActions ==
    { n \in 1..Len(acted) : acted[n].op \in {"click", "fill", "hover", "select"} }

\* C23: within one resolution (one multi_strategy_locate call, or one
\* auto_execute dispatch with all the tools it invokes) the requested action
\* succeeds on the driver at most once: once a click, fill, hover or select
\* has completed on the page, no further one is performed, whatever later
\* driver call (such as a screenshot) fails.
C23_ActionAtMostOnce ==
    Cardinality(PageActions) <= 1

DescriptionStrategies == {"accessibility_tree", "vision_locator", "javascript"}

\* the request names explicit selectors only, and every one of them failed
OnlySelectorsAllFailed ==
    /\ loc.active /\ LocPageValid
    /\ loc.description = None /\ Len(loc.selectors) > 0
    /\ Len(tried) >= Len(loc.standard_selectors)
    /\ \A k \in 1..Len(loc.standard_selectors) : ~tried[k].ok

\* C25: when a request to multi_strategy_locate supplies only explicit
\* selectors (no description) and all of them fail, the description-based
\* strategies (accessibility tree, vision, JavaScript scan) perform no
\* action on any page element: nothing is clicked, filled, hovered or
\* selected on the basis of the absent description.
C25_NoActionWithoutDescription ==
    OnlySelectorsAllFailed =>
        \A n \in 1..Len(acted) :
            acted[n].fn = "locate" => acted[n].by \notin DescriptionStrategies

\* a tool of the dispatch reported success
SomeToolSucceeded ==
    \E k \in 1..Len(ae.reported) : ae.reported[k].status = "success"

\* the driver action of the verb completed on the located element
VerbPerformed ==
    \E n \in 1..Len(acted) : acted[n].op = Lower(ae.action)

\* C26: auto_execute treats the action verb case-insensitively throughout:
\* for every casing of a verb (Click as click) the dispatch selects the same
\* tool chain, every tool of the chain performs the same driver action on
\* the element it located, and the last-resort step runs under the same
\* conditions as for the lower-case verb.
C26_VerbCaseInsensitive ==
    (ae.active /\ AePageValid /\ Lower(ae.action) = "click") =>
        /\ ae.tool_names = ToolNames("click")
        /\ SomeToolSucceeded => VerbPerformed
        /\ (pc = "ae_final") <=>
              (/\ ~ae.done /\ ae.last_resort = 0 /\ ae.k > 1
               /\ ~FallbackRemains
               /\ pc \notin {"ae_primary_ret", "ae_fallback_ret", "loc_sel",
                             "loc_a11y", "loc_vision", "loc_js", "loc_diag",
                             "sc_check", "sc_sel", "sc_a11y", "sc_exhausted"})

\* the position of the accessibility-tree strategy in the order of one call
A11yPos == Len(loc.standard_selectors) + 1

\* a find request whose standard selectors all failed and whose
\* accessibility snapshot held a node matching the description
FindWithA11yMatch ==
    /\ loc.active /\ LocPageValid
    /\ loc.action = "find" /\ loc.description # None
    /\ NoTemplateMatched
    /\ Len(tried) >= A11yPos
    /\ loc.a11y_button

\* C27: for action = find, multi_strategy_locate counts a strategy as
\* successful exactly when its locator found at least one matching element
\* or node: if all standard selectors fail and the accessibility tree holds
\* a match for the description, the outcome is success via the
\* accessibility tree rather than a failed attempt.
C27_FindSucceedsOnMatch ==
    FindWithA11yMatch =>
        /\ tried[A11yPos].ok
        /\ Len(tried) = A11yPos
        /\ loc.done
        /\ loc.result.status = "success"
        /\ "strategy_used" \in DOMAIN loc.result
        /\ loc.result.strategy_used = "accessibility_tree"

\* a navigate dispatch with the default options whose tool ran with every
\* driver operation (goto, title, screenshot) succeeding
NavigateDefaultCompleted ==
    /\ ae.active /\ AePageValid
    /\ Lower(ae.action) = "navigate"
    /\ ae.capture_screenshot /\ ae.kwargs = {}
    /\ ae.invoked = <<"playwright_navigate">>
    /\ ae.driver_ok

\* C30: auto_execute with verb navigate and default options
\* (capture_screenshot = true) returns status success with tool_used =
\* playwright_navigate whenever the driver's goto, title and screenshot
\* operations all succeed; no attempt is recorded as failed for a navigation
\* the driver completed.
C30_NavigateDefaultSucceeds ==
    NavigateDefaultCompleted =>
        /\ ae.done
        /\ ae.result.status = "success"
        /\ ae.result.tool_used = "playwright_navigate"
        /\ \A n \in 1..Len(ae.attempts) : ae.attempts[n].result = "success"

\* a list without the entries equal to x
Without(list, x) == SelectSeq(list, LAMBDA y : y # x)

\* C21: mutations of the page collection are serialized: under every
\* interleaving, at await points, of concurrent playwright_close and
\* playwright_click_and_switch_tab calls on one session, each close removes
\* from the collection exactly the page it closed, so the collection never
\* retains a closed page and never drops a page that is still open.
C21_CloseRemovesThePageItClosed ==
    (closed # NoCall /\ closed.driver = "ok") =>
        pages = Without(closed.before, closed.target)

\* C29: playwright_close leaves the page collection unchanged on every
\* error outcome: with a negative or out-of-range index, or when the
\* driver's page close raises, it returns status error and the collection
\* holds the same pages in the same order as before; on success exactly the
\* page at the given index is removed.
C29_CloseErrorLeavesCollection ==
    closed # NoCall =>
        /\ closed.result.status \in {"success", "error"}
        /\ (\/ closed.page_index < 0
            \/ closed.page_index >= Len(closed.before)
            \/ closed.driver = "raise") => closed.result.status = "error"
        /\ closed.result.status = "error" => pages = closed.before
        /\ closed.result.status = "success" =>
              /\ Len(pages) = Len(closed.before) - 1
              /\ \A n \in 1..Len(pages) :
                    pages[n] = IF n <= closed.page_index
                               THEN closed.before[n]
                               ELSE closed.before[n + 1]

\* the driver's close raised on the first of several pages
C29_Witness ==
    /\ closed # NoCall
    /\ closed.page_index = 0 /\ closed.driver = "raise"
    /\ closed.result.status = "error"
    /\ Len(pages) >= 2 /\ pages = closed.before

\* C22: playwright_highlight_element restores the element's outline,
\* z-index and position on every exit path: once the highlight has been
\* applied, after the call returns, with success or with error (as when the
\* screenshot fails), the element's style equals its style before the call.
C22_HighlightRestoredOnEveryExit ==
    (hl.pc = "done" /\ hl.applied) => elem_style = hl.before

\* C24: playwright_console_logs called with clear=True returns status
\* success and empties the console-log buffer, so that a later call returns
\* only entries logged after the clear; a retrieval without a clear request
\* never removes entries from the buffer.
C24_ClearEmptiesBuffer ==
    cl # NoCall =>
        IF "clear" \in cl.kwargs
        THEN /\ cl.result.status = "success"
             /\ console_logs = <<>>
        ELSE /\ cl.result.status = "success"
             /\ console_logs = cl.before

\* C28: start_codegen_session always stores the new session under an id
\* that is not in use: after any sequence of start_codegen_session and
\* end_codegen_session calls, a start never overwrites an existing session
\* and increases the number of stored sessions by exactly one.
C28_StartUsesFreshId ==
    (cg # NoCall /\ cg.fn = "start_codegen_session") =>
        /\ cg.session_id \notin DOMAIN cg.before
        /\ \A k \in DOMAIN cg.before :
              /\ k \in DOMAIN codegen_sessions
              /\ codegen_sessions[k] = cg.before[k]
        /\ Cardinality(DOMAIN codegen_sessions)
              = Cardinality(DOMAIN cg.before) + 1

====
